---- MODULE Spec2Model ----
(***************************************************************************)
(* Model of the AI Terminal plugin: the provider gateway (AIService), the  *)
(* chat panel (TerminalView: sendMessage, processCommand, attachments)     *)
(* and the plugin settings (main.ts).                                      *)
(*                                                                         *)
(* Text is modelled as a sequence of parts: an instruction typed by the    *)
(* user is a sequence of one-character strings (so that trim, startsWith   *)
(* and slice are computed), a message built from a template literal is the *)
(* sequence of its literal and interpolated parts.                         *)
(***************************************************************************)
EXTENDS Integers, Sequences, FiniteSets, TLC

VARIABLES
    persisted,        \* data.json of the plugin (what loadData returns)
    settings,         \* AITerminalPlugin.settings
    chatHistory,      \* TerminalView.chatHistory
    attachments,      \* TerminalView.attachments
    currentProvider,  \* TerminalView.currentProvider
    currentModel,     \* TerminalView.currentModel
    modelOptions,     \* the options of the model selector (modelSelectEl)
    exch,             \* the processCommand invocations, by order of send
    calls,            \* log of the AIService calls made
    posts,            \* log of the requestUrl calls made (outbound POSTs)
    nSends,           \* number of sendMessage invocations so far
    contextList,      \* the context items rendered by refreshContext
    vault,            \* the paths that exist in the vault
    noteCalls,        \* the createNoteFromResponse invocations
    pendingSaves,     \* the saveSettings calls whose saveData has not settled
    commandItems,     \* the command items rendered by the settings tab
    skillItems,       \* the skill items rendered by the settings tab
    nEdits            \* number of edits made in the settings tab so far

\* the state of the settings tab
tabState == <<pendingSaves, commandItems, skillItems, nEdits>>

vars == <<persisted, settings, chatHistory, attachments, currentProvider,
          currentModel, modelOptions, exch, calls, posts, nSends, contextList, vault, noteCalls,
          tabState>>

-----------------------------------------------------------------------------
(* Bounds *)

\* number of sendMessage invocations explored
MaxSends == 2
\* number of attachment entries explored
MaxAttach == 2
\* number of sendMessage invocations explored in a panel with attachments
MaxAttachSends == 1
\* number of sendMessage invocations explored while commands are edited
MaxSlashSends == 1
\* number of custom commands added to the default ones
MaxAdded == 1
\* number of sendMessage invocations explored while notes are created
MaxNoteSends == 1
\* number of createNoteFromResponse invocations explored
MaxNotes == 2
\* number of AIService calls a caller makes in the gateway specification
MaxCalls == 2
\* number of edits made in the settings tab
MaxEdits == 2
\* number of skills added in the settings tab
MaxSkills == 2
\* number of sendMessage invocations explored while skills are edited
MaxSkillSends == 1
\* number of sendMessage invocations explored while tabs and models are switched
MaxSwitchSends == 1

-----------------------------------------------------------------------------
(* JavaScript values *)

\* the value of a property that does not exist
Undefined == "<undefined>"

\* !apiKey
Falsy(v) == v = "" \/ v = Undefined

\* obj.key on an object that may lack the key
Get(obj, key) == IF key \in DOMAIN obj THEN obj[key] ELSE Undefined

Has(obj, key) == key \in DOMAIN obj

EmptyObject == [k \in {} |-> ""]

Min(S) == CHOOSE m \in S : \A n \in S : m <= n

\* String.prototype.trim, startsWith, slice(n) on sequences of characters
WhiteSpace == {" ", "\n", "\t"}

RECURSIVE trimStart(_)
trimStart(s) ==
    IF s # <<>> /\ Head(s) \in WhiteSpace THEN trimStart(Tail(s)) ELSE s

RECURSIVE trimEnd(_)
trimEnd(s) ==
    IF s # <<>> /\ s[Len(s)] \in WhiteSpace
    THEN trimEnd(SubSeq(s, 1, Len(s) - 1)) ELSE s

trim(s) == trimEnd(trimStart(s))

startsWith(s, prefix) ==
    Len(prefix) <= Len(s) /\ SubSeq(s, 1, Len(prefix)) = prefix

slice(s, n) == SubSeq(s, n + 1, Len(s))

\* Array.prototype.push / pop on a sequence
Push(arr, x) == Append(arr, x)

Pop(arr) == IF arr = <<>> THEN arr ELSE SubSeq(arr, 1, Len(arr) - 1)

-----------------------------------------------------------------------------
(* main.ts: templates, model catalogs, default settings *)

PROMPT_TEMPLATES_basic ==
    "You are an expert knowledge synthesizer. Output in Markdown."

PROVIDER_MODELS ==
    [gemini |-> <<"gemini-2.5-pro", "gemini-2.5-flash", "gemini-2.5-flash-lite",
                  "gemini-2.0-flash", "gemini-2.0-flash-lite">>,
     openai |-> <<"gpt-4.1", "gpt-4.1-mini", "gpt-4.1-nano", "gpt-4o",
                  "gpt-4o-mini", "o3", "o3-mini", "o4-mini", "gpt-4-turbo",
                  "gpt-4", "gpt-3.5-turbo">>,
     claude |-> <<"claude-sonnet-4-5-20250929", "claude-haiku-4-5-20251001",
                  "claude-opus-4-5-20251101", "claude-sonnet-4-20250514",
                  "claude-3-7-sonnet-20250219", "claude-3-haiku-20240307">>]

\* the values CustomCommand.provider can hold
CommandProviders == {"gemini", "openai", "claude"}

\* the values TerminalView.currentProvider can hold
PanelProviders == {"gemini", "openai", "anthropic"}

DEFAULT_CUSTOM_COMMANDS ==
    << [id |-> "1", provider |-> "gemini", modelId |-> "gemini-2.5-flash",
        name |-> "Gemini Flash", command |-> <<"/", "g", "e", "m", "i", "n", "i">>,
        promptTemplate |-> PROMPT_TEMPLATES_basic],
       [id |-> "2", provider |-> "openai", modelId |-> "gpt-4o-mini",
        name |-> "GPT-4o Mini", command |-> <<"/", "g", "p", "t">>,
        promptTemplate |-> PROMPT_TEMPLATES_basic],
       [id |-> "3", provider |-> "claude", modelId |-> "claude-haiku-4-5-20251001",
        name |-> "Claude Haiku", command |-> <<"/", "c", "l", "a", "u", "d", "e">>,
        promptTemplate |-> PROMPT_TEMPLATES_basic] >>

DEFAULT_SETTINGS ==
    [googleApiKey |-> "", openaiApiKey |-> "", claudeApiKey |-> "",
     defaultFolder |-> <<>>, customCommands |-> DEFAULT_CUSTOM_COMMANDS,
     skills |-> <<>>]

\* Object.assign({}, DEFAULT_SETTINGS, data): every key of data overrides
loadSettings(data) == data @@ DEFAULT_SETTINGS

\* saveSettings: saveData(this.settings), the data.json that results
saveSettings(s) == s

\* The data.json files explored: none (first start), keys entered through the
\* settings tab, a file written by the earlier release of the plugin, whose
\* Claude key was stored as anthropicApiKey, and a key with a default folder.
PersistedData ==
    { EmptyObject,
      [googleApiKey |-> "g-key", openaiApiKey |-> "o-key", claudeApiKey |-> "c-key"],
      [openaiApiKey |-> "o-key", anthropicApiKey |-> "a-key"],
      [googleApiKey |-> "g-key", defaultFolder |-> <<"N", "o", "t", "e", "s">>] }


-----------------------------------------------------------------------------
(* AIService: the three provider calls.                                    *)
(* Each call is an async function with one suspension point, the await of  *)
(* requestUrl.  The operator named after the function is the part that     *)
(* runs synchronously when it is called; the ..._resume operator is the    *)
(* part that runs when requestUrl settles with resp.                       *)
(* An outcome is  [tag |-> "throw", message |-> m]   (the promise rejects) *)
(*                [tag |-> "await", request |-> r]   (requestUrl(r) issued)*)
(*                [tag |-> "return", value |-> v]    (the promise resolves)*)

Throw(m) == [tag |-> "throw", message |-> m]
Await(r) == [tag |-> "await", request |-> r]
Return(v) == [tag |-> "return", value |-> v]

\* what requestUrl settles with: it resolves with a response or it rejects
HttpResponse(status, body) ==
    [kind |-> "response", status |-> status, text |-> body.text, json |-> body.json]
TransportFailure ==
    [kind |-> "error", message |-> <<"net::ERR_CONNECTION_REFUSED">>]

\* reading a property of undefined
TypeError(prop) ==
    Throw(<<"Cannot read properties of undefined (reading '", prop, "')">>)

callGoogle(apiKey, model, systemPrompt, userPrompt) ==
    IF Falsy(apiKey) THEN Throw(<<"Google", " API Key is missing">>)
    ELSE Await([url |-> <<"https://generativelanguage.googleapis.com/v1beta/models/",
                          model, ":generateContent">>,
                method |-> "POST",
                headers |-> [ContentType |-> "application/json", xGoogApiKey |-> apiKey],
                body |-> [contents |-> <<[role |-> "user",
                            parts |-> <<[text |-> <<systemPrompt, "\n\n", userPrompt>>]>>]>>]])

\* callGoogle_resume with the status test of the two other providers
callGoogle_resume_ge400(resp) ==
    IF resp.kind = "error" THEN Throw(resp.message)
    ELSE IF resp.status >= 400
    THEN Throw(<<"Gemini Error ", ToString(resp.status), ": ", resp.text>>)
    ELSE IF ~Has(resp.json, "candidates") THEN Throw(<<"AI returned no content">>)
    ELSE IF resp.json.candidates = <<>> THEN TypeError("content")
    ELSE IF ~Has(resp.json.candidates[1], "content") THEN Throw(<<"AI returned no content">>)
    ELSE Return(resp.json.candidates[1].content.parts[1].text)

callGoogle_resume(resp) ==
    IF resp.kind = "error" THEN Throw(resp.message)
    ELSE IF resp.status # 200
    THEN Throw(<<"Gemini Error ", ToString(resp.status), ": ", resp.text>>)
    ELSE IF ~Has(resp.json, "candidates") THEN Throw(<<"AI returned no content">>)
    ELSE IF resp.json.candidates = <<>> THEN TypeError("content")
    ELSE IF ~Has(resp.json.candidates[1], "content") THEN Throw(<<"AI returned no content">>)
    ELSE Return(resp.json.candidates[1].content.parts[1].text)

\* callOpenAI without its check of the key
callOpenAI_noKeyCheck(apiKey, model, systemPrompt, userPrompt) ==
    Await([url |-> <<"https://api.openai.com/v1/chat/completions">>,
           method |-> "POST",
           headers |-> [ContentType |-> "application/json",
                        Authorization |-> <<"Bearer ", apiKey>>],
           body |-> [model |-> model,
                     messages |-> <<[role |-> "system", content |-> systemPrompt],
                                    [role |-> "user", content |-> userPrompt]>>]])

callOpenAI(apiKey, model, systemPrompt, userPrompt) ==
    IF Falsy(apiKey) THEN Throw(<<"OpenAI", " API Key is missing">>)
    ELSE Await([url |-> <<"https://api.openai.com/v1/chat/completions">>,
                method |-> "POST",
                headers |-> [ContentType |-> "application/json",
                             Authorization |-> <<"Bearer ", apiKey>>],
                body |-> [model |-> model,
                          messages |-> <<[role |-> "system", content |-> systemPrompt],
                                         [role |-> "user", content |-> userPrompt]>>]])

callOpenAI_resume(resp) ==
    IF resp.kind = "error" THEN Throw(resp.message)
    ELSE IF resp.status >= 400 THEN Throw(<<"OpenAI Error: ", ToString(resp.status)>>)
    ELSE IF ~Has(resp.json, "choices") THEN TypeError("0")
    ELSE Return(resp.json.choices[1].message.content)

callAnthropic(apiKey, model, systemPrompt, userPrompt) ==
    IF Falsy(apiKey) THEN Throw(<<"Anthropic", " API Key is missing">>)
    ELSE Await([url |-> <<"https://api.anthropic.com/v1/messages">>,
                method |-> "POST",
                headers |-> [ContentType |-> "application/json", xApiKey |-> apiKey,
                             anthropicVersion |-> "2023-06-01"],
                body |-> [model |-> model, system |-> systemPrompt,
                          messages |-> <<[role |-> "user", content |-> userPrompt]>>,
                          max_tokens |-> 4096]])

\* callAnthropic_resume treating only the 5xx statuses as failures
callAnthropic_resume_5xx(resp) ==
    IF resp.kind = "error" THEN Throw(resp.message)
    ELSE IF resp.status >= 500 THEN Throw(<<"Claude Error: ", ToString(resp.status)>>)
    ELSE IF ~Has(resp.json, "content") THEN TypeError("0")
    ELSE Return(resp.json.content[1].text)

callAnthropic_resume(resp) ==
    IF resp.kind = "error" THEN Throw(resp.message)
    ELSE IF resp.status >= 400 THEN Throw(<<"Claude Error: ", ToString(resp.status)>>)
    ELSE IF ~Has(resp.json, "content") THEN TypeError("0")
    ELSE Return(resp.json.content[1].text)

AIServiceFns == {"callGoogle", "callOpenAI", "callAnthropic"}

\* AIService[fn](apiKey, model, systemPrompt, userPrompt), up to its await
AIService(fn, apiKey, model, systemPrompt, userPrompt) ==
    CASE fn = "callGoogle" -> callGoogle(apiKey, model, systemPrompt, userPrompt)
      [] fn = "callOpenAI" -> callOpenAI(apiKey, model, systemPrompt, userPrompt)
      [] fn = "callAnthropic" -> callAnthropic(apiKey, model, systemPrompt, userPrompt)

\* ... and from its await on
AIService_resume(fn, resp) ==
    CASE fn = "callGoogle" -> callGoogle_resume(resp)
      [] fn = "callOpenAI" -> callOpenAI_resume(resp)
      [] fn = "callAnthropic" -> callAnthropic_resume(resp)

-----------------------------------------------------------------------------
(* The responses explored *)

\* the text of the answer in a well-formed body, as characters
Answer == <<"a", "n", "s", "w", "e", "r">>

\* a success, a success that is not 200, the first failure status, a 5xx
Statuses == {200, 204, 400, 500}

GeminiBodies ==
    { [text |-> "{candidates:[{content:{parts:[{text:'answer'}]}}]}",
       json |-> [candidates |-> <<[content |-> [parts |-> <<[text |-> Answer]>>]]>>]],
      [text |-> "{candidates:[{finishReason:'SAFETY'}]}",
       json |-> [candidates |-> <<[finishReason |-> "SAFETY"]>>]],
      [text |-> "{candidates:[]}",
       json |-> [candidates |-> <<>>]],
      [text |-> "{error:{}}",
       json |-> [error |-> EmptyObject]] }

OpenAIBodies ==
    { [text |-> "{choices:[{message:{content:'answer'}}]}",
       json |-> [choices |-> <<[message |-> [content |-> Answer]]>>]],
      [text |-> "{error:{}}",
       json |-> [error |-> EmptyObject]] }

AnthropicBodies ==
    { [text |-> "{content:[{text:'answer'}]}",
       json |-> [content |-> <<[text |-> Answer]>>]],
      [text |-> "{error:{}}",
       json |-> [error |-> EmptyObject]] }

Bodies(fn) ==
    CASE fn = "callGoogle" -> GeminiBodies
      [] fn = "callOpenAI" -> OpenAIBodies
      [] fn = "callAnthropic" -> AnthropicBodies

\* every settlement of requestUrl explored for a call of fn
Responses(fn) ==
    {HttpResponse(s, b) : s \in Statuses, b \in Bodies(fn)} \cup {TransportFailure}

\* the settlements explored for a call made by the chat panel: a well-formed
\* answer, an HTTP 500 and a transport failure
SessionResponses(fn) ==
    {r \in Responses(fn) :
        \/ r.kind = "error"
        \/ r.kind = "response" /\ r.status = 200 /\ AIService_resume(fn, r).tag = "return"
        \/ r.kind = "response" /\ r.status = 500 /\ r.text = "{error:{}}"}

\* the answers from which notes are created, as characters: a plain line, a
\* header block with a quoted title, a header block without a title followed
\* by a heading, a heading, an empty first line, a heading after a first
\* line, a header block whose title ends with a date, a heading with
\* characters that a file name cannot hold, a header block that is not closed
NoteContents ==
    { Answer,
      <<"-", "-", "-", "\n", "t", "i", "t", "l", "e", ":", " ", "\"", "F", "o", "o", "\"",
        "\n", "-", "-", "-", "\n", "h", "i">>,
      <<"-", "-", "-", "\n", "x", "\n", "-", "-", "-", "\n", "#", " ", "H">>,
      <<"#", " ", "H", "\n", "x">>,
      <<"\n", "x">>,
      <<"x", "\n", "#", " ", "H">>,
      <<"-", "-", "-", "\n", "t", "i", "t", "l", "e", ":", "T", " ",
        "2", "0", "2", "5", "0", "1", "0", "1", "\n", "-", "-", "-">>,
      <<"#", " ", "a", "/", "b">>,
      <<"-", "-", "-", "\n", "x">> }

\* the settlements of a Gemini call whose answer is one of NoteContents
NoteResponses(fn) ==
    IF fn = "callGoogle"
    THEN {HttpResponse(200, [text |-> "{candidates:[{content:{parts:[{text:'note'}]}}]}",
                             json |-> [candidates |->
                                 <<[content |-> [parts |-> <<[text |-> t]>>]]>>]]) :
             t \in NoteContents}
    ELSE {}

\* an entry of the log of AIService calls
CallRecord(id, fn, apiKey, model, systemPrompt, userPrompt, out) ==
    [exch |-> id, fn |-> fn, apiKey |-> apiKey, model |-> model,
     systemPrompt |-> systemPrompt, userPrompt |-> userPrompt,
     pc |-> IF out.tag = "await" THEN "awaiting" ELSE "settled",
     resp |-> [kind |-> "none"], outcome |-> out]

\* the log entry once requestUrl has settled with resp
SettledCall(call, resp) ==
    [call EXCEPT !.pc = "settled", !.resp = resp,
                 !.outcome = AIService_resume(call.fn, resp)]

-----------------------------------------------------------------------------------------------------------------------------------------------------
(* The vault *)

File(path, basename, extension) ==
    [path |-> path, basename |-> basename, extension |-> extension]

NoFile == File("", "", "")

VaultFiles ==
    { File("F/A.md", "A", "md"), File("F/S/B.md", "B", "md"), File("F/img.png", "img", "png") }

\* a TFolder: what distinguishes it from a TFile is that it has children
Folder(path, name, children) == [path |-> path, name |-> name, children |-> children]

\* the folders of the vault: F holds a note, an image and the folder S,
\* which holds a note; E holds no note
VaultFolder_S == Folder("F/S", "S", << File("F/S/B.md", "B", "md") >>)

VaultFolder_F ==
    Folder("F", "F", << File("F/A.md", "A", "md"), File("F/img.png", "img", "png"),
                        VaultFolder_S >>)

VaultFolder_E == Folder("E", "E", << File("E/pic.png", "pic", "png") >>)

\* the folders chosen in the FolderSuggester
VaultFolders == { VaultFolder_F, VaultFolder_E }

\* vault.getMarkdownFiles()
getMarkdownFiles == {f \in VaultFiles : f.extension = "md"}

\* the paths getAbstractFileByPath finds when the panel opens, as characters
VaultPaths ==
    { <<"F">>, <<"F", "/", "A", ".", "m", "d">>, <<"F", "/", "S">>,
      <<"F", "/", "S", "/", "B", ".", "m", "d">>,
      <<"F", "/", "i", "m", "g", ".", "p", "n", "g">>,
      <<"E">>, <<"E", "/", "p", "i", "c", ".", "p", "n", "g">> }

\* vault.read(file)
FileContent(file) ==
    CASE file.path = "F/A.md" -> <<"H", "e", "l", "l", "o">>
      [] file.path = "F/S/B.md" -> <<"B", "y", "e">>
      [] OTHER -> <<>>

\* content.substring(0, 10000)
ContextLimit == 10000

substring(s, from, to) ==
    SubSeq(s, from + 1, IF to < Len(s) THEN to ELSE Len(s))

-----------------------------------------------------------------------------
(* TerminalView: attachments *)

RECURSIVE flatMapItems(_)
flatMapItems(atts) ==
    IF atts = <<>> THEN <<>> ELSE Head(atts).items \o flatMapItems(Tail(atts))

\* unique.set(f.path, f) for every file, then Array.from(unique.values())
RECURSIVE uniqueByPath(_, _)
uniqueByPath(files, acc) ==
    IF files = <<>> THEN acc
    ELSE LET f == Head(files)
         IN uniqueByPath(Tail(files),
                IF \E i \in DOMAIN acc : acc[i].path = f.path
                THEN [i \in DOMAIN acc |-> IF acc[i].path = f.path THEN f ELSE acc[i]]
                ELSE Append(acc, f))

\* the pinnedNotes getter returning every item of every attachment
pinnedNotesOf_flat(atts) == flatMapItems(atts)

\* the pinnedNotes getter on the attachment list atts
pinnedNotesOf(atts) == uniqueByPath(flatMapItems(atts), <<>>)

pinnedNotes == pinnedNotesOf(attachments)

FileAttachment(f) ==
    [type |-> "file", name |-> f.basename, path |-> f.path, items |-> <<f>>, count |-> 1]

FolderAttachment(folder, filesToAdd) ==
    [type |-> "folder", name |-> folder.name, path |-> folder.path,
     items |-> filesToAdd, count |-> Len(filesToAdd)]

\* atts.filter(a => a.type !== 'file')
RECURSIVE filterNotFile(_)
filterNotFile(atts) ==
    IF atts = <<>> THEN <<>>
    ELSE IF Head(atts).type # "file" THEN <<Head(atts)>> \o filterNotFile(Tail(atts))
         ELSE filterNotFile(Tail(atts))

\* arr.splice(index, 1) with a 0-based index: the array that is left
splice1(arr, index) ==
    IF index + 1 \in DOMAIN arr
    THEN SubSeq(arr, 1, index) \o SubSeq(arr, index + 2, Len(arr))
    ELSE arr

\* refreshContext: one context item per attachment, whose remove button
\* holds the index the attachment had when the panel was rendered (att is
\* the attachment the item displays)
refreshContext(atts) ==
    [i \in DOMAIN atts |-> [index |-> i - 1, att |-> atts[i]]]

\* the files.forEach of the Attach Notes handler
RECURSIVE pushFiles(_, _)
pushFiles(atts, files) ==
    IF files = <<>> THEN atts
    ELSE pushFiles(Push(atts, FileAttachment(Head(files))), Tail(files))

\* the selections the MultiNoteSuggester can submit: the notes of the vault
\* in any number and any order, each once (selectedFiles is a Set)
Selections ==
    {sel \in UNION {[1..n -> getMarkdownFiles] : n \in 0..Cardinality(getMarkdownFiles)} :
        \A i, j \in DOMAIN sel : i # j => sel[i] # sel[j]}

\* Done in the MultiNoteSuggester opened by Attach Notes, with files selected
attachNotes(files) ==
    /\ LET kept == filterNotFile(attachments)
           atts == pushFiles(kept, files)
       IN /\ Len(atts) <= MaxAttach
          /\ attachments' = atts
          /\ contextList' = refreshContext(atts)
    /\ UNCHANGED <<persisted, settings, chatHistory, currentProvider, currentModel, modelOptions,
                   exch, calls, posts, nSends, vault, noteCalls, tabState>>

\* collectFiles of the Attach Folder handler
RECURSIVE collectFiles(_)
collectFiles(folder) ==
    LET RECURSIVE each(_)
        each(children) ==
            IF children = <<>> THEN <<>>
            ELSE LET child == Head(children)
                 IN (IF ~Has(child, "children")
                     THEN (IF child.extension = "md" THEN <<child>> ELSE <<>>)
                     ELSE collectFiles(child))
                    \o each(Tail(children))
    IN each(folder.children)

\* the Attach Folder handler without its test of filesToAdd.length
attachFolder_noLengthTest(folder) ==
    /\ LET filesToAdd == collectFiles(folder)
       IN /\ Len(attachments) < MaxAttach
          /\ attachments' = Push(attachments, FolderAttachment(folder, filesToAdd))
          /\ contextList' = refreshContext(attachments')
    /\ UNCHANGED <<persisted, settings, chatHistory, currentProvider, currentModel, modelOptions,
                   exch, calls, posts, nSends, vault, noteCalls, tabState>>

\* a folder chosen in the FolderSuggester opened by Attach Folder
attachFolder(folder) ==
    /\ LET filesToAdd == collectFiles(folder)
       IN IF Len(filesToAdd) > 0
          THEN /\ Len(attachments) < MaxAttach
               /\ attachments' = Push(attachments, FolderAttachment(folder, filesToAdd))
               /\ contextList' = refreshContext(attachments')
          ELSE UNCHANGED <<attachments, contextList>>
    /\ UNCHANGED <<persisted, settings, chatHistory, currentProvider, currentModel, modelOptions,
                   exch, calls, posts, nSends, vault, noteCalls, tabState>>

\* attachActiveNote without its test of the entries already attached
attachActiveNoteTo_noExists(atts, activeFile) ==
    IF activeFile # NoFile /\ activeFile.extension = "md"
    THEN Push(atts, FileAttachment(activeFile))
    ELSE atts

\* attachActiveNote on the attachment list atts: the list that results
attachActiveNoteTo(atts, activeFile) ==
    IF /\ activeFile # NoFile
       /\ activeFile.extension = "md"
       /\ ~\E i \in DOMAIN atts :
             atts[i].type = "file" /\ atts[i].path = activeFile.path
    THEN Push(atts, FileAttachment(activeFile))
    ELSE atts

\* click on the chat area while activeFile is the active document
attachActiveNote(activeFile) ==
    /\ LET atts == attachActiveNoteTo(attachments, activeFile)
       IN /\ Len(atts) <= MaxAttach
          /\ attachments' = atts
          /\ contextList' = IF atts # attachments THEN refreshContext(atts)
                            ELSE contextList
    /\ UNCHANGED <<persisted, settings, chatHistory, currentProvider, currentModel, modelOptions,
                   exch, calls, posts, nSends, vault, noteCalls, tabState>>

\* the remove handler without the refreshContext that follows the splice
removeAttachment_noRefresh(item) ==
    /\ item \in DOMAIN contextList
    /\ attachments' = splice1(attachments, contextList[item].index)
    /\ UNCHANGED <<persisted, settings, chatHistory, currentProvider, currentModel, modelOptions,
                   exch, calls, posts, nSends, contextList, vault, noteCalls, tabState>>

\* click on the remove button of the context item contextList[item]
removeAttachment(item) ==
    /\ item \in DOMAIN contextList
    /\ attachments' = splice1(attachments, contextList[item].index)
    /\ contextList' = refreshContext(attachments')
    /\ UNCHANGED <<persisted, settings, chatHistory, currentProvider, currentModel, modelOptions,
                   exch, calls, posts, nSends, vault, noteCalls, tabState>>

-----
(* TerminalView: the chat *)

\* A turn of chatHistory.  exch is not a field of ChatMessage: it records
\* which send pushed the turn, so that a turn can be told from an equal one.
Turn(role, content, id) == [role |-> role, content |-> content, exch |-> id]

Generating == <<"Generating...">>

DefaultSystemPrompt ==
    "You are an expert knowledge synthesizer. Output in Markdown."

\* findCommandBySlash testing only that the input starts with the trigger
findCommandBySlash_prefix(input) ==
    LET commands == settings.customCommands
        found == {i \in DOMAIN commands :
                    \/ startsWith(input, commands[i].command)
                    \/ input = commands[i].command}
    IN IF found = {} THEN 0 ELSE Min(found)

\* index in settings.customCommands of the command found, 0 for undefined
findCommandBySlash(input) ==
    LET commands == settings.customCommands
        found == {i \in DOMAIN commands :
                    \/ startsWith(input, commands[i].command \o <<" ">>)
                    \/ input = commands[i].command}
    IN IF found = {} THEN 0 ELSE Min(found)

\* the if / else if chain on provider: the AIService function called
ProviderCall(provider) ==
    CASE provider = "gemini" -> "callGoogle"
      [] provider = "openai" -> "callOpenAI"
      [] provider = "anthropic" -> "callAnthropic"
      [] OTHER -> "none"

\* the settings field passed as apiKey to each function
ApiKeyArgument(fn) ==
    CASE fn = "callGoogle" -> Get(settings, "googleApiKey")
      [] fn = "callOpenAI" -> Get(settings, "openaiApiKey")
      [] fn = "callAnthropic" -> Get(settings, "anthropicApiKey")

\* An invocation of processCommand: toRead is the array the pinnedNotes
\* getter returned, read the number of its files the loop has read.  command
\* is not a variable of the function: it records the index that
\* findCommandBySlash returned, and atSend records what was in effect when
\* sendMessage called the function.
\* the provider, the model and the key that processCommand would use for
\* input if it chose them now, at lines 875-876 and 898-902
InEffect(input) ==
    LET c == findCommandBySlash(input)
        provider == IF c # 0 THEN settings.customCommands[c].provider ELSE currentProvider
        fn == ProviderCall(provider)
    IN [provider |-> provider,
        modelId |-> IF c # 0 THEN settings.customCommands[c].modelId ELSE currentModel,
        apiKey |-> IF fn = "none" THEN "" ELSE ApiKeyArgument(fn)]

Exchange(input, toRead) ==
    [pc |-> "reading", input |-> input, toRead |-> toRead, read |-> 0,
     contextText |-> <<>>, provider |-> "", modelId |-> "", call |-> 0, command |-> 0,
     atSend |-> InEffect(input)]

SetExch(id, ex) ==
    IF id > Len(exch) THEN Append(exch, ex) ELSE [exch EXCEPT ![id] = ex]

\* processCommand from findCommandBySlash to the await of the provider call;
\* hist is chatHistory at that point.  When no branch of the provider chain
\* matches nothing is awaited, and when the AIService function throws on its
\* key the awaited promise is already rejected: in both cases the rest of
\* processCommand runs before any other event handler, in the same step.
Dispatch(id, ex, hist) ==
    LET input == ex.input
        c == findCommandBySlash(input)
        customCommand == settings.customCommands[c]
        provider == IF c # 0 THEN customCommand.provider ELSE currentProvider
        modelId == IF c # 0 THEN customCommand.modelId ELSE currentModel
        systemPrompt == IF c # 0 THEN customCommand.promptTemplate ELSE DefaultSystemPrompt
        rest == trim(slice(input, Len(customCommand.command)))
        userMessage == IF c # 0 /\ rest # <<>> THEN rest ELSE input
        fullPrompt == <<"Context:\n", ex.contextText, "\n\nInstruction:\n", userMessage>>
        placed == Push(hist, Turn("system", Generating, id))
        fn == ProviderCall(provider)
        apiKey == ApiKeyArgument(fn)
        out == AIService(fn, apiKey, modelId, systemPrompt, fullPrompt)
        sent == [ex EXCEPT !.provider = provider, !.modelId = modelId, !.command = c]
    IN IF fn = "none"
       THEN /\ chatHistory' = Push(Pop(placed), Turn("ai", <<>>, id))
            /\ exch' = SetExch(id, [sent EXCEPT !.pc = "done"])
            /\ UNCHANGED <<calls, posts>>
       ELSE /\ calls' = Append(calls,
                   CallRecord(id, fn, apiKey, modelId, systemPrompt, fullPrompt, out))
            /\ IF out.tag = "throw"
               THEN /\ chatHistory' = Push(Pop(placed),
                            Turn("system", <<"Error: ">> \o out.message, id))
                    /\ exch' = SetExch(id, [sent EXCEPT !.pc = "done",
                                                        !.call = Len(calls) + 1])
                    /\ UNCHANGED posts
               ELSE /\ chatHistory' = placed
                    /\ exch' = SetExch(id, [sent EXCEPT !.pc = "awaiting",
                                                        !.call = Len(calls) + 1])
                    /\ posts' = Append(posts, [call |-> Len(calls) + 1,
                                               request |-> out.request])

\* the texts typed in the input box
Inputs ==
    { <<"h", "i">>,
      <<" ">>,
      <<"/", "g", "p", "t", " ", "x">>,
      <<"/", "c", "l", "a", "u", "d", "e">> }

\* sendMessage whose processCommand makes the provider and the model of the
\* matched command the current ones
sendMessage_sticky(value) ==
    /\ nSends < MaxSends
    /\ nSends' = nSends + 1
    /\ LET text == trim(value)
           id == Len(exch) + 1
           hist == Push(chatHistory, Turn("user", text, id))
           notes == pinnedNotes
           c == findCommandBySlash(text)
       IN /\ IF text = <<>>
             THEN UNCHANGED <<chatHistory, exch, calls, posts>>
             ELSE IF notes = <<>>
                  THEN Dispatch(id, Exchange(text, notes), hist)
                  ELSE /\ chatHistory' = hist
                       /\ exch' = Append(exch, Exchange(text, notes))
                       /\ UNCHANGED <<calls, posts>>
          /\ IF text # <<>> /\ c # 0
             THEN /\ currentProvider' = settings.customCommands[c].provider
                  /\ currentModel' = settings.customCommands[c].modelId
             ELSE UNCHANGED <<currentProvider, currentModel>>
    /\ UNCHANGED <<persisted, settings, attachments, modelOptions, contextList, vault,
                   noteCalls, tabState>>

\* sendMessage without its return on an empty text
sendMessage_noEmptyCheck(value) ==
    /\ nSends < MaxSends
    /\ nSends' = nSends + 1
    /\ LET text == trim(value)
           id == Len(exch) + 1
           hist == Push(chatHistory, Turn("user", text, id))
           notes == pinnedNotes
       IN IF notes = <<>>
          THEN Dispatch(id, Exchange(text, notes), hist)
          ELSE /\ chatHistory' = hist
               /\ exch' = Append(exch, Exchange(text, notes))
               /\ UNCHANGED <<calls, posts>>
    /\ UNCHANGED <<persisted, settings, attachments, currentProvider, currentModel, modelOptions,
                   contextList, vault, noteCalls, tabState>>

\* Enter or a click on the send button while the input box holds value
sendMessage(value) ==
    /\ nSends < MaxSends
    /\ nSends' = nSends + 1
    /\ LET text == trim(value)
           id == Len(exch) + 1
           hist == Push(chatHistory, Turn("user", text, id))
           notes == pinnedNotes
       IN IF text = <<>>
          THEN UNCHANGED <<chatHistory, exch, calls, posts>>
          ELSE IF notes = <<>>
               THEN Dispatch(id, Exchange(text, notes), hist)
               ELSE /\ chatHistory' = hist
                    /\ exch' = Append(exch, Exchange(text, notes))
                    /\ UNCHANGED <<calls, posts>>
    /\ UNCHANGED <<persisted, settings, attachments, currentProvider, currentModel, modelOptions,
                   contextList, vault, noteCalls, tabState>>

\* vault.read of the next pinned note of exchange id resolves
readResolved(id) ==
    /\ id \in DOMAIN exch
    /\ exch[id].pc = "reading"
    /\ LET ex == exch[id]
           file == ex.toRead[ex.read + 1]
           content == FileContent(file)
           block == <<"\n=== NOTE: ", file.basename, " ===\n",
                      substring(content, 0, ContextLimit), "...\n">>
           read == [ex EXCEPT !.read = ex.read + 1,
                              !.contextText = Append(ex.contextText, block)]
       IN IF read.read = Len(read.toRead)
          THEN Dispatch(id, read, chatHistory)
          ELSE /\ exch' = [exch EXCEPT ![id] = read]
               /\ UNCHANGED <<chatHistory, calls, posts>>
    /\ UNCHANGED <<persisted, settings, attachments, currentProvider, currentModel, modelOptions, nSends,
                   contextList, vault, noteCalls, tabState>>

\* vault.read rejects: the exception leaves processCommand, which has no
\* handler around the reads
readRejected(id) ==
    /\ id \in DOMAIN exch
    /\ exch[id].pc = "reading"
    /\ exch' = [exch EXCEPT ![id].pc = "rejected"]
    /\ UNCHANGED <<persisted, settings, chatHistory, attachments, currentProvider,
                   currentModel, modelOptions, calls, posts, nSends,
                   contextList, vault, noteCalls, tabState>>

\* providerSettled with a catch block that issues the request once more
providerSettled_retry(id, resp) ==
    /\ id \in DOMAIN exch
    /\ exch[id].pc = "awaiting"
    /\ LET c == exch[id].call
           settled == SettledCall(calls[c], resp)
           out == settled.outcome
           sent == {p \in DOMAIN posts : posts[p].call = c}
       IN /\ resp \in SessionResponses(calls[c].fn)
          /\ IF out.tag = "throw" /\ Cardinality(sent) < 2
             THEN /\ posts' = Append(posts, posts[CHOOSE p \in sent : TRUE])
                  /\ UNCHANGED <<calls, chatHistory, exch>>
             ELSE /\ calls' = [calls EXCEPT ![c] = settled]
                  /\ chatHistory' =
                        IF out.tag = "return"
                        THEN Push(Pop(chatHistory), Turn("ai", out.value, id))
                        ELSE Push(Pop(chatHistory),
                                  Turn("system", <<"Error: ">> \o out.message, id))
                  /\ exch' = [exch EXCEPT ![id].pc = "done"]
                  /\ UNCHANGED posts
    /\ UNCHANGED <<persisted, settings, attachments, currentProvider, currentModel, modelOptions, nSends,
                   contextList, vault, noteCalls, tabState>>

\* requestUrl settles for the provider call of exchange id: the rest of
\* processCommand (the end of the try block or the catch block) runs
providerSettled(id, resp) ==
    /\ id \in DOMAIN exch
    /\ exch[id].pc = "awaiting"
    /\ LET c == exch[id].call
           settled == SettledCall(calls[c], resp)
           out == settled.outcome
       IN /\ resp \in SessionResponses(calls[c].fn) \cup NoteResponses(calls[c].fn)
          /\ calls' = [calls EXCEPT ![c] = settled]
          /\ chatHistory' =
                IF out.tag = "return"
                THEN Push(Pop(chatHistory), Turn("ai", out.value, id))
                ELSE Push(Pop(chatHistory), Turn("system", <<"Error: ">> \o out.message, id))
          /\ exch' = [exch EXCEPT ![id].pc = "done"]
    /\ UNCHANGED <<persisted, settings, attachments, currentProvider, currentModel, modelOptions,
                   posts, nSends,
                   contextList, vault, noteCalls, tabState>>

\* click on the provider tab p.  For 'anthropic' getProviderModels returns
\* undefined and models.length throws: the handler ends there, with the
\* model and the selector as they were
tabClick(p) ==
    /\ currentProvider' = p
    /\ IF Has(PROVIDER_MODELS, p)
       THEN /\ currentModel' = IF Len(PROVIDER_MODELS[p]) > 0 THEN PROVIDER_MODELS[p][1]
                               ELSE ""
            /\ modelOptions' = PROVIDER_MODELS[p]
       ELSE UNCHANGED <<currentModel, modelOptions>>
    /\ UNCHANGED <<persisted, settings, chatHistory, attachments, exch, calls, posts, nSends,
                   contextList, vault, noteCalls, tabState>>

\* change event of the model selector: value is one of its options
modelSelected(value) ==
    /\ \E i \in DOMAIN modelOptions : modelOptions[i] = value
    /\ currentModel' = value
    /\ UNCHANGED <<persisted, settings, chatHistory, attachments, currentProvider,
                   modelOptions, exch, calls, posts, nSends, contextList, vault,
                   noteCalls, tabState>>

-----------------------------------------------------------------------------
(* TerminalView: createNoteFromResponse, the title and the content         *)

Max(S) == CHOOSE m \in S : \A n \in S : m >= n

Digits == {"0", "1", "2", "3", "4", "5", "6", "7", "8", "9"}

Quote == "\""

BackSlash == "\\"

\* s.indexOf(pattern, from), positions counted from 1, 0 when there is none
indexOf(s, pattern, from) ==
    LET found == {i \in from..(Len(s) - Len(pattern) + 1) :
                    SubSeq(s, i, i + Len(pattern) - 1) = pattern}
    IN IF found = {} THEN 0 ELSE Min(found)

\* the number of characters from position r on that a character class
\* matches greedily: the characters in set, the characters not in set
RECURSIVE runIn(_, _, _)
runIn(s, r, set) ==
    IF r \in DOMAIN s /\ s[r] \in set THEN 1 + runIn(s, r + 1, set) ELSE 0

RECURSIVE runNotIn(_, _, _)
runNotIn(s, r, set) ==
    IF r \in DOMAIN s /\ s[r] \notin set THEN 1 + runNotIn(s, r + 1, set) ELSE 0

\* s.replace(/[set]/g, by), by being a sequence of characters
RECURSIVE replaceClass(_, _, _)
replaceClass(s, set, by) ==
    IF s = <<>> THEN <<>>
    ELSE (IF Head(s) \in set THEN by ELSE <<Head(s)>>) \o replaceClass(Tail(s), set, by)

\* the result of String.prototype.match: null, or the first group
NoMatch == [matched |-> FALSE, group |-> <<>>]

Match(group) == [matched |-> TRUE, group |-> group]

\* content.match(/^---\n([\s\S]*?)\n---/)
yamlMatch(content) ==
    IF ~startsWith(content, <<"-", "-", "-", "\n">>) THEN NoMatch
    ELSE LET end == indexOf(content, <<"\n", "-", "-", "-">>, 5)
         IN IF end = 0 THEN NoMatch ELSE Match(SubSeq(content, 5, end - 1))

\* /title:\s*"?([^"\n]+)"?/ tried on a "title:" whose last character is at
\* position q: \s* gives back characters, "? its quote, until the group has
\* one character at least
titleGroupAt(s, q) ==
    LET w == runIn(s, q + 1, WhiteSpace)
        run(r) == runNotIn(s, r, {Quote, "\n"})
        start(k) == LET r == q + k + 1
                    IN IF r \in DOMAIN s /\ s[r] = Quote /\ run(r + 1) >= 1 THEN r + 1
                       ELSE IF run(r) >= 1 THEN r
                       ELSE 0
        ks == {k \in 0..w : start(k) # 0}
    IN IF ks = {} THEN NoMatch
       ELSE LET r == start(Max(ks))
            IN Match(SubSeq(s, r, r + run(r) - 1))

\* yamlContent.match(/title:\s*"?([^"\n]+)"?/)
titleMatch(s) ==
    LET title == <<"t", "i", "t", "l", "e", ":">>
        ps == {p \in 1..(Len(s) - 5) :
                  SubSeq(s, p, p + 5) = title /\ titleGroupAt(s, p + 5).matched}
    IN IF ps = {} THEN NoMatch ELSE titleGroupAt(s, Min(ps) + 5)

\* /^#\s+(.+)$/m tried on a "#" at position p, the start of a line
headingGroupAt(s, p) ==
    LET w == runIn(s, p + 1, WhiteSpace)
        run(r) == runNotIn(s, r, {"\n"})
        ks == {k \in 1..w : run(p + k + 1) >= 1}
    IN IF ks = {} THEN NoMatch
       ELSE LET r == p + Max(ks) + 1
            IN Match(SubSeq(s, r, r + run(r) - 1))

\* content.match(/^#\s+(.+)$/m)
headingMatch(s) ==
    LET ps == {p \in DOMAIN s :
                  /\ s[p] = "#"
                  /\ (p = 1 \/ s[p - 1] = "\n")
                  /\ headingGroupAt(s, p).matched}
    IN IF ps = {} THEN NoMatch ELSE headingGroupAt(s, Min(ps))

\* content.split('\n')[0].substring(0, 50).replace(/[#"\\/]/g, '').trim()
firstLineTitle(content) ==
    LET firstLine == substring(SubSeq(content, 1, runNotIn(content, 1, {"\n"})), 0, 50)
    IN trim(replaceClass(firstLine, {"#", Quote, BackSlash, "/"}, <<>>))

\* noteTitle.match(/\d{8}$/)
endsWithDate(noteTitle) ==
    /\ Len(noteTitle) >= 8
    /\ \A i \in (Len(noteTitle) - 7)..Len(noteTitle) : noteTitle[i] \in Digits

\* the status written in the frontmatter (a Korean word for "written")
StatusText == "written"

\* the frontmatter put before a response that has none
frontmatter(noteTitle, now) ==
    <<"---\ntitle: ", Quote>> \o noteTitle \o <<" ">> \o now.dateStr
      \o <<Quote, "\ntags: []\naliases: []\ncreated: ", Quote>> \o now.timeStr
      \o <<Quote, "\ntype: [", Quote, "Note", Quote, "]\nstatus: ", Quote,
           StatusText, Quote, "\npriority: ", Quote, "Medium", Quote,
           "\nsource: ", Quote, "AI Terminal", Quote,
           "\nrelated: []\nkeywords: []\nsummary: ", Quote, Quote, "\n---\n\n">>

\* noteOf putting its frontmatter before every response
noteOf_alwaysWraps(content, now) ==
    LET yaml == yamlMatch(content)
        title == titleMatch(yaml.group)
        heading == headingMatch(content)
        extracted == IF yaml.matched
                     THEN (IF title.matched THEN trim(title.group) ELSE <<>>)
                     ELSE IF heading.matched THEN trim(heading.group)
                     ELSE firstLineTitle(content)
        dated == IF ~endsWithDate(extracted) THEN extracted \o <<" ">> \o now.dateStr
                 ELSE extracted
    IN [noteTitle |-> dated,
        finalContent |-> frontmatter(extracted, now) \o content,
        sanitizedTitle |->
            replaceClass(dated,
                {BackSlash, "/", ":", "*", "?", Quote, "<", ">", "|"}, <<"-">>)]

\* createNoteFromResponse from its first line to sanitizedTitle: the title,
\* the content written and the name of the file
noteOf(content, now) ==
    LET yaml == yamlMatch(content)
        title == titleMatch(yaml.group)
        heading == headingMatch(content)
        extracted == IF yaml.matched
                     THEN (IF title.matched THEN trim(title.group) ELSE <<>>)
                     ELSE IF heading.matched THEN trim(heading.group)
                     ELSE firstLineTitle(content)
        finalContent == IF yaml.matched THEN content
                        ELSE frontmatter(extracted, now) \o content
        named == IF yaml.matched THEN extracted
                 ELSE extracted \o <<" ">> \o now.dateStr
        dated == IF ~endsWithDate(named) THEN named \o <<" ">> \o now.dateStr ELSE named
        noteTitle == IF dated # <<>> THEN dated
                     ELSE <<"A", "I", " ", "R", "e", "s", "p", "o", "n", "s", "e", " ">>
                            \o now.dateStr
    IN [noteTitle |-> noteTitle,
        finalContent |-> finalContent,
        sanitizedTitle |->
            replaceClass(noteTitle,
                {BackSlash, "/", ":", "*", "?", Quote, "<", ">", "|"}, <<"-">>)]

MdExtension == <<".", "m", "d">>

\* the path chosen without the while loop on getAbstractFileByPath
freePath_noLoop(paths, finalPath, folderPath, baseName, counter) == finalPath

\* the while loop on getAbstractFileByPath(finalPath): the first of
\* <title>.md, <title> 1.md, <title> 2.md, ... that is not in paths
RECURSIVE freePath(_, _, _, _, _)
freePath(paths, finalPath, folderPath, baseName, counter) ==
    IF finalPath \in paths
    THEN freePath(paths, folderPath \o baseName \o <<" ", ToString(counter)>> \o MdExtension,
                  folderPath, baseName, counter + 1)
    ELSE finalPath

\* new Date(): toISOString().slice(0, 10) without its dashes, and
\* toISOString().slice(0, 16) with a space for its T
Dates ==
    { [dateStr |-> <<"2", "0", "2", "6", "1", "1", "0", "2">>,
       timeStr |-> <<"2026-11-02 15:04">>] }

\* the messages of the errors that the vault and the workspace reject with
FolderError == <<"Folder already exists.">>
FileError == <<"File already exists.">>
OpenError == <<"Cannot open file.">>

\* An invocation of createNoteFromResponse: pc is the promise it awaits
\* ("createFolder", "create", "openFile") or "done"; notices are the notices
\* it has shown.
NoteCall(content, note, defaultFolder, pc, finalPath) ==
    [pc |-> pc, content |-> content, noteTitle |-> note.noteTitle,
     finalContent |-> note.finalContent, sanitizedTitle |-> note.sanitizedTitle,
     defaultFolder |-> defaultFolder,
     folderPath |-> IF defaultFolder # <<>> THEN defaultFolder \o <<"/">> ELSE <<>>,
     finalPath |-> finalPath, notices |-> <<>>]

\* createNoteFromResponse from "let finalPath = fullPath" to the call of
\* vault.create, run while the vault holds paths
awaitCreate(call, paths) ==
    [call EXCEPT !.pc = "create",
                 !.finalPath = freePath(paths,
                                        call.folderPath \o call.sanitizedTitle \o MdExtension,
                                        call.folderPath, call.sanitizedTitle, 1)]

\* the catch block: new Notice(`Failed to create note: ${e.message}`)
noteFailed(call, message) ==
    [call EXCEPT !.pc = "done",
                 !.notices = Append(@, <<"Failed to create note: ">> \o message)]

\* click on the create-note button of an 'ai' turn whose content is content
createNoteFromResponse(content, now) ==
    /\ Len(noteCalls) < MaxNotes
    /\ \E i \in DOMAIN chatHistory :
          chatHistory[i].role = "ai" /\ chatHistory[i].content = content
    /\ LET defaultFolder == settings.defaultFolder
           call == NoteCall(content, noteOf(content, now), defaultFolder, "createFolder", <<>>)
       IN noteCalls' = Append(noteCalls,
              IF defaultFolder # <<>> /\ defaultFolder \notin vault
              THEN call
              ELSE awaitCreate(call, vault))
    /\ UNCHANGED <<persisted, settings, chatHistory, attachments, currentProvider,
                   currentModel, modelOptions, exch, calls, posts, nSends, contextList, vault, tabState>>

\* noteSettled whose catch block reports the failure in the chat
noteSettled_errorTurn(n, resolved) ==
    /\ n \in DOMAIN noteCalls
    /\ noteCalls[n].pc # "done"
    /\ LET call == noteCalls[n]
       IN IF resolved
          THEN /\ call.pc = "create" => call.finalPath \notin vault
               /\ call.pc = "createFolder" => call.defaultFolder \notin vault
               /\ vault' = CASE call.pc = "createFolder" -> vault \cup {call.defaultFolder}
                             [] call.pc = "create" -> vault \cup {call.finalPath}
                             [] OTHER -> vault
               /\ noteCalls' = [noteCalls EXCEPT ![n] =
                     CASE call.pc = "createFolder" -> awaitCreate(call, vault')
                       [] call.pc = "create" ->
                            [call EXCEPT !.pc = "openFile",
                                         !.notices = Append(@, <<"Note created: ">> \o
                                             SubSeq(call.finalPath, Len(call.folderPath) + 1,
                                                    Len(call.finalPath) - Len(MdExtension)))]
                       [] OTHER -> [call EXCEPT !.pc = "done"]]
               /\ UNCHANGED chatHistory
          ELSE /\ noteCalls' = [noteCalls EXCEPT ![n].pc = "done"]
               /\ chatHistory' = Push(chatHistory, Turn("system", <<"Error: ">> \o FileError, 0))
               /\ UNCHANGED vault
    /\ UNCHANGED <<persisted, settings, attachments, currentProvider,
                   currentModel, modelOptions, exch, calls, posts, nSends, contextList, tabState>>

\* the promise that invocation n of createNoteFromResponse awaits settles:
\* vault.createFolder, vault.create (which resolves only when nothing exists
\* at the path) or leaf.openFile
noteSettled(n, resolved) ==
    /\ n \in DOMAIN noteCalls
    /\ noteCalls[n].pc # "done"
    /\ LET call == noteCalls[n]
       IN IF resolved
          THEN /\ call.pc = "create" => call.finalPath \notin vault
               /\ call.pc = "createFolder" => call.defaultFolder \notin vault
               /\ vault' = CASE call.pc = "createFolder" -> vault \cup {call.defaultFolder}
                             [] call.pc = "create" -> vault \cup {call.finalPath}
                             [] OTHER -> vault
               /\ noteCalls' = [noteCalls EXCEPT ![n] =
                     CASE call.pc = "createFolder" -> awaitCreate(call, vault')
                       [] call.pc = "create" ->
                            [call EXCEPT !.pc = "openFile",
                                         !.notices = Append(@, <<"Note created: ">> \o
                                             SubSeq(call.finalPath, Len(call.folderPath) + 1,
                                                    Len(call.finalPath) - Len(MdExtension)))]
                       [] OTHER -> [call EXCEPT !.pc = "done"]]
          ELSE /\ noteCalls' = [noteCalls EXCEPT ![n] =
                     noteFailed(call, CASE call.pc = "createFolder" -> FolderError
                                        [] call.pc = "create" -> FileError
                                        [] OTHER -> OpenError)]
               /\ UNCHANGED vault
    /\ UNCHANGED <<persisted, settings, chatHistory, attachments, currentProvider,
                   currentModel, modelOptions, exch, calls, posts, nSends, contextList, tabState>>

-----------------------------------------------------------------------------
(* main.ts: the settings tab.  A handler that edits the settings calls     *)
(* saveSettings, whose saveData is handed the settings as they are at the  *)
(* call and settles later; the writes of data.json settle in the order of  *)
(* their calls.  What a handler does after its await runs when its save    *)
(* settles.                                                                *)

\* the forEach of display() over customCommands and over skills: an item
\* holds the index its element had when the list was rendered (id is the
\* command the item displays, checked the state of the toggle of the skill)
renderCommands(commands) ==
    [i \in DOMAIN commands |-> [index |-> i - 1, id |-> commands[i].id]]

renderSkills(skills) ==
    [i \in DOMAIN skills |-> [index |-> i - 1, checked |-> skills[i].enabled]]

\* the settings tab is opened
display ==
    /\ commandItems' = renderCommands(settings.customCommands)
    /\ skillItems' = renderSkills(settings.skills)
    /\ UNCHANGED <<persisted, settings, chatHistory, attachments, currentProvider,
                   currentModel, modelOptions, exch, calls, posts, nSends, contextList, vault,
                   noteCalls, pendingSaves, nEdits>>

\* a handler assigns the settings s and awaits saveSettings(); then is what
\* it does after the await, arg the position of the skill it goes on with
Edit(s, then, arg) ==
    /\ nEdits < MaxEdits
    /\ nEdits' = nEdits + 1
    /\ settings' = s
    /\ pendingSaves' = Append(pendingSaves,
                              [data |-> saveSettings(s), then |-> then, arg |-> arg])
    /\ UNCHANGED <<persisted, chatHistory, attachments, currentProvider, currentModel, modelOptions,
                   exch, calls, posts, nSends, contextList, noteCalls, commandItems>>

\* a handler of a command item: customCommands[index] is undefined when the
\* list has become shorter than it was rendered, and the assignment throws
EditCommand(item, s) ==
    /\ item \in DOMAIN commandItems
    /\ IF commandItems[item].index + 1 \in DOMAIN settings.customCommands
       THEN Edit(s, "return", 0) /\ UNCHANGED <<vault, skillItems>>
       ELSE UNCHANGED vars

ApiKeyFields == {"googleApiKey", "openaiApiKey", "claudeApiKey"}

\* the handler of an API key field without its call of saveSettings
setApiKey_noSave(field, value) ==
    /\ nEdits < MaxEdits
    /\ nEdits' = nEdits + 1
    /\ settings' = [settings EXCEPT ![field] = value]
    /\ UNCHANGED <<persisted, chatHistory, attachments, currentProvider, currentModel, modelOptions,
                   exch, calls, posts, nSends, contextList, noteCalls, commandItems,
                   pendingSaves, vault, skillItems>>

\* onChange of one of the three API key text fields
setApiKey(field, value) ==
    /\ Edit([settings EXCEPT ![field] = value], "return", 0)
    /\ UNCHANGED <<vault, skillItems>>

\* onChange of the Default Folder text field
setDefaultFolder(value) ==
    /\ Edit([settings EXCEPT !.defaultFolder = value], "return", 0)
    /\ UNCHANGED <<vault, skillItems>>

\* click on the delete button of a command item
deleteCommand(item) ==
    /\ item \in DOMAIN commandItems
    /\ Edit([settings EXCEPT !.customCommands = splice1(@, commandItems[item].index)],
            "display", 0)
    /\ UNCHANGED <<vault, skillItems>>

\* onChange of the Name text field of a command item
setName(item, value) ==
    EditCommand(item,
        [settings EXCEPT !.customCommands[commandItems[item].index + 1].name = value])

\* onChange of the Command text field of a command item
setCommand(item, value) ==
    EditCommand(item,
        [settings EXCEPT !.customCommands[commandItems[item].index + 1].command = value])

\* onChange of the Provider dropdown of a command item
setProvider(item, value) ==
    EditCommand(item,
        [settings EXCEPT !.customCommands[commandItems[item].index + 1].provider = value,
                         !.customCommands[commandItems[item].index + 1].modelId =
                              PROVIDER_MODELS[value][1]])

\* onChange of the Model dropdown of a command item
setModelId(item, value) ==
    EditCommand(item,
        [settings EXCEPT !.customCommands[commandItems[item].index + 1].modelId = value])

\* onChange of the prompt text area, click on a template button (value is
\* the template) or on Clear Prompt (value is '')
setPromptTemplate(item, value) ==
    EditCommand(item,
        [settings EXCEPT !.customCommands[commandItems[item].index + 1].promptTemplate
                            = value])

\* click on "+ Add Command"; id is Date.now().toString()
addCommand(id) ==
    /\ Len(settings.customCommands) < Len(DEFAULT_CUSTOM_COMMANDS) + MaxAdded
    /\ LET newCommand ==
              [id |-> id, provider |-> "gemini", modelId |-> "gemini-2.0-flash-exp",
               name |-> "New Command", command |-> <<"/", "n", "e", "w">>,
               promptTemplate |-> "You are an expert knowledge synthesizer. Output in Markdown."]
       IN Edit([settings EXCEPT !.customCommands = Push(@, newCommand)], "display", 0)
    /\ UNCHANGED <<vault, skillItems>>

\* String.prototype.toLowerCase on the letters that skill names hold
toLowerCase(s) ==
    [i \in DOMAIN s |-> CASE s[i] = "A" -> "a" [] s[i] = "B" -> "b" [] OTHER -> s[i]]

skillsDir == <<".obsidian/skills">>

\* `${skillsDir}/${fileName}` of saveSkillFile, dirPath of deleteSkillFile
skillSubDir(skill) ==
    skillsDir \o <<"/">>
      \o toLowerCase(replaceClass(skill.name,
            {BackSlash, "/", ":", "*", "?", Quote, "<", ">", "|"}, <<"-">>))

skillFilePath(skill) == skillSubDir(skill) \o <<"/", "SKILL.md">>

\* saveSkillFile on a vault that holds paths: the paths it holds then (the
\* folders are created when they are missing, the file is created or modified)
saveSkillFile(paths, skill) ==
    paths \cup {skillsDir, skillSubDir(skill), skillFilePath(skill)}

\* deleteSkillFile: vault.delete(dir, true) removes the folder and what is in it
deleteSkillFile(paths, skill) ==
    IF skillSubDir(skill) \in paths
    THEN {path \in paths : /\ path # skillSubDir(skill)
                           /\ ~startsWith(path, skillSubDir(skill) \o <<"/">>)}
    ELSE paths

\* getActiveSkillsPrompt
RECURSIVE skillBlocks(_)
skillBlocks(skills) ==
    IF skills = <<>> THEN <<>>
    ELSE (IF Head(skills).enabled
          THEN <<"<skill name=\"">> \o Head(skills).name
                 \o <<"\">\n", Head(skills).instructions, "\n</skill>\n">>
          ELSE <<>>) \o skillBlocks(Tail(skills))

getActiveSkillsPrompt(s) ==
    IF skillBlocks(s.skills) = <<>> THEN <<>>
    ELSE <<"\n\n<skills>\n">> \o skillBlocks(s.skills) \o <<"</skills>">>

\* a handler of a skill item.  The handlers of an item use the skill object
\* the item was rendered for, which is skills[index] as long as the list
\* has been rendered since its last splice.
EditSkill(item, s, then) ==
    /\ item \in DOMAIN skillItems
    /\ skillItems[item].index + 1 \in DOMAIN settings.skills
    /\ Edit(s, then, skillItems[item].index + 1)

\* click on "+ Add Skill"; id is Date.now().toString()
addSkill(id) ==
    /\ Len(settings.skills) < MaxSkills
    /\ LET newSkill ==
              [id |-> id, name |-> <<"n", "e", "w", "-", "s", "k", "i", "l", "l">>,
               description |-> "Describe what this skill does",
               instructions |-> "# Skill Name\n\n## Instructions\nAdd your instructions here.",
               enabled |-> TRUE]
       IN Edit([settings EXCEPT !.skills = Push(@, newSkill)], "addSkill",
               Len(settings.skills) + 1)
    /\ UNCHANGED <<vault, skillItems>>

\* click on the toggle of a skill item: the checkbox changes, then the handler runs
toggleSkill(item) ==
    /\ EditSkill(item,
          [settings EXCEPT !.skills[skillItems[item].index + 1].enabled =
                               ~skillItems[item].checked], "return")
    /\ skillItems' = [skillItems EXCEPT ![item].checked = ~@]
    /\ UNCHANGED vault

\* onChange of the Name text field of a skill item
setSkillName(item, value) ==
    /\ EditSkill(item,
          [settings EXCEPT !.skills[skillItems[item].index + 1].name = value], "return")
    /\ UNCHANGED <<vault, skillItems>>

\* onChange of the instructions text area of a skill item
setSkillInstructions(item, value) ==
    /\ EditSkill(item,
          [settings EXCEPT !.skills[skillItems[item].index + 1].instructions = value],
          "return")
    /\ UNCHANGED <<vault, skillItems>>

\* click on "Save & Export" of a skill item
exportSkill(item) ==
    /\ EditSkill(item, settings, "export")
    /\ UNCHANGED <<vault, skillItems>>

\* click on the delete button of a skill item: deleteSkillFile, whose
\* vault.delete settles before another handler runs, then the splice
deleteSkill(item) ==
    /\ EditSkill(item,
          [settings EXCEPT !.skills = splice1(@, skillItems[item].index)], "display")
    /\ vault' = deleteSkillFile(vault, settings.skills[skillItems[item].index + 1])
    /\ UNCHANGED skillItems

\* saveData of the oldest pending saveSettings settles: data.json holds what
\* it was handed and the handler goes on (saveSkillFile is run as one step)
saveSettled ==
    /\ pendingSaves # <<>>
    /\ LET save == Head(pendingSaves)
           exports == save.then \in {"addSkill", "export"}
                        /\ save.arg \in DOMAIN settings.skills
           shows == save.then \in {"addSkill", "display"}
       IN /\ persisted' = save.data
          /\ pendingSaves' = Tail(pendingSaves)
          /\ vault' = IF exports THEN saveSkillFile(vault, settings.skills[save.arg])
                      ELSE vault
          /\ commandItems' = IF shows THEN renderCommands(settings.customCommands)
                             ELSE commandItems
          /\ skillItems' = IF shows THEN renderSkills(settings.skills) ELSE skillItems
    /\ UNCHANGED <<settings, chatHistory, attachments, currentProvider, currentModel, modelOptions,
                   exch, calls, posts, nSends, contextList, noteCalls, nEdits>>

-----------------------------------------------------------------------------
(* Specification of the chat panel *)

Init ==
    /\ persisted \in PersistedData
    /\ settings = loadSettings(persisted)
    /\ chatHistory = <<>>
    /\ attachments = <<>>
    /\ currentProvider = "gemini"
    /\ currentModel = "gemini-2.0-flash-exp"
    /\ modelOptions = PROVIDER_MODELS["gemini"]
    /\ exch = <<>>
    /\ calls = <<>>
    /\ posts = <<>>
    /\ nSends = 0
    /\ contextList = <<>>
    /\ vault = VaultPaths
    /\ noteCalls = <<>>
    /\ pendingSaves = <<>>
    /\ commandItems = <<>>
    /\ skillItems = <<>>
    /\ nEdits = 0

\* the chat of a panel: sends, provider switches and settlements
Next ==
    \/ \E value \in Inputs : sendMessage(value)
    \/ \E id \in 1..MaxSends : \E fn \in AIServiceFns :
            \E resp \in SessionResponses(fn) : providerSettled(id, resp)
    \/ \E p \in PanelProviders : tabClick(p)

Spec == Init /\ [][Next]_vars

\* the texts typed in the input box of a panel with attachments
AttachInputs == { <<"h", "i">>, <<" ">> }

\* the chat of a panel whose user attaches and detaches notes and folders
NextAttach ==
    \/ \E value \in AttachInputs : nSends < MaxAttachSends /\ sendMessage(value)
    \/ \E id \in 1..MaxAttachSends : readResolved(id)
    \/ \E id \in 1..MaxAttachSends : readRejected(id)
    \/ \E id \in 1..MaxAttachSends : \E fn \in AIServiceFns :
            \E resp \in SessionResponses(fn) : providerSettled(id, resp)
    \/ \E f \in VaultFiles \cup {NoFile} : attachActiveNote(f)
    \/ \E files \in Selections : attachNotes(files)
    \/ \E folder \in VaultFolders : attachFolder(folder)
    \/ \E item \in 1..MaxAttach : removeAttachment(item)

SpecAttach == Init /\ [][NextAttach]_vars

-----------------------------------------------------------------------------
(* Specification of the slash commands: the user edits the triggers in the *)
(* settings tab, adds commands and sends instructions                      *)

\* the text the Command field of a custom command is set to: the trigger of
\* the second default command, so that several commands share a trigger
Triggers == { <<"/", "g", "p", "t">> }

\* the instructions sent
SlashInputs ==
    { <<"/", "g", "p", "t", " ", "x">>,
      <<"/", "g", "p", "t", "4", " ", "x">>,
      <<"/", "g", "p", "t">>,
      <<"/", "n", "e", "w", " ", "x">> }

NextCommands ==
    \/ \E value \in SlashInputs : nSends < MaxSlashSends /\ sendMessage(value)
    \/ \E id \in 1..MaxSlashSends : \E fn \in AIServiceFns :
            \E resp \in SessionResponses(fn) : providerSettled(id, resp)
    \/ display
    \/ \E item \in 1..(Len(DEFAULT_CUSTOM_COMMANDS) + MaxAdded) :
            \E value \in Triggers : setCommand(item, value)
    \/ addCommand("1700000000000")
    \/ saveSettled

SpecCommands == Init /\ [][NextCommands]_vars

-----------------------------------------------------------------------------
(* Specification of the notes created from answers: the user sends         *)
(* instructions, attaches the active note and creates notes from the       *)
(* answers, in the default folder that the settings were loaded with       *)

\* the values the Default Folder field is set to
DefaultFolders == { <<>>, <<"N", "o", "t", "e", "s">> }

NextNotes ==
    \/ nSends < MaxNoteSends /\ sendMessage(<<"h", "i">>)
    \/ \E id \in 1..MaxNoteSends : \E fn \in AIServiceFns :
            \E resp \in SessionResponses(fn) : providerSettled(id, resp)
    \/ attachActiveNote(File("F/A.md", "A", "md"))
    \/ \E now \in Dates : createNoteFromResponse(Answer, now)
    \/ \E n \in 1..MaxNotes : \E resolved \in BOOLEAN : noteSettled(n, resolved)

SpecNotes == Init /\ [][NextNotes]_vars

-----------------------------------------------------------------------------
(* Specification of the titles and the paths of the notes: the provider    *)
(* answers with texts of every shape and the user creates notes from them, *)
(* in the default folder that the settings were loaded with                *)

NextTitles ==
    \/ nSends < MaxNoteSends /\ sendMessage(<<"h", "i">>)
    \/ \E id \in 1..MaxNoteSends : \E fn \in AIServiceFns :
            \E resp \in NoteResponses(fn) : providerSettled(id, resp)
    \/ \E content \in NoteContents : \E now \in Dates :
            createNoteFromResponse(content, now)
    \/ \E n \in 1..MaxNotes : \E resolved \in BOOLEAN : noteSettled(n, resolved)

SpecTitles == Init /\ [][NextTitles]_vars

-----------------------------------------------------------------------------
(* Specification of the settings tab: the user opens it and edits the      *)
(* keys, the default folder and the custom commands                        *)

\* the key typed in an API key field
NewKey == "new-key"

NextSettings ==
    \/ display
    \/ \E field \in ApiKeyFields : setApiKey(field, NewKey)
    \/ \E value \in DefaultFolders : setDefaultFolder(value)
    \/ \E item \in 1..(Len(DEFAULT_CUSTOM_COMMANDS) + MaxAdded) : setName(item, "Renamed")
    \/ \E item \in 1..(Len(DEFAULT_CUSTOM_COMMANDS) + MaxAdded) :
            \E value \in Triggers : setCommand(item, value)
    \/ setProvider(1, "claude")
    \/ setModelId(1, "gemini-2.5-pro")
    \/ setPromptTemplate(1, "")
    \/ \E item \in 1..(Len(DEFAULT_CUSTOM_COMMANDS) + MaxAdded) : deleteCommand(item)
    \/ addCommand("1700000000000")
    \/ saveSettled

SpecSettings == Init /\ [][NextSettings]_vars

-----------------------------------------------------------------------------
(* Specification of the skills: the user adds, edits, exports and deletes  *)
(* skills in the settings tab, each time the list has been rendered again, *)
(* and sends instructions                                                  *)

\* the names typed in the Name field of a skill: two names that differ by
\* their case only
SkillNames == { <<"a">>, <<"A">> }

\* the text typed in the instructions of a skill
SkillInstructions == { "Answer in French." }

NextSkills ==
    \/ display
    \/ addSkill("1700000000000")
    \/ \E item \in 1..MaxSkills : pendingSaves = <<>> /\ toggleSkill(item)
    \/ \E item \in 1..MaxSkills : \E value \in SkillNames :
            pendingSaves = <<>> /\ setSkillName(item, value)
    \/ \E item \in 1..MaxSkills : \E value \in SkillInstructions :
            pendingSaves = <<>> /\ setSkillInstructions(item, value)
    \/ \E item \in 1..MaxSkills : pendingSaves = <<>> /\ exportSkill(item)
    \/ \E item \in 1..MaxSkills : pendingSaves = <<>> /\ deleteSkill(item)
    \/ saveSettled
    \/ nSends < MaxSkillSends /\ sendMessage(<<"h", "i">>)
    \/ \E id \in 1..MaxSkillSends : \E fn \in AIServiceFns :
            \E resp \in SessionResponses(fn) : providerSettled(id, resp)

SpecSkills == Init /\ [][NextSkills]_vars

\* the model picked in the selector
SelectedModels == { "gemini-2.5-pro" }

\* The panel with an attached document: instructions are sent, their reads
\* and calls settle, and the user clicks the provider tabs and picks models
\* in the selector at any moment in between.
NextSwitch ==
    \/ attachActiveNote(File("F/A.md", "A", "md"))
    \/ nSends < MaxSwitchSends /\ sendMessage(<<"h", "i">>)
    \/ \E id \in 1..MaxSwitchSends : readResolved(id)
    \/ \E id \in 1..MaxSwitchSends : \E fn \in AIServiceFns :
            \E resp \in SessionResponses(fn) : providerSettled(id, resp)
    \/ \E p \in PanelProviders : tabClick(p)
    \/ \E value \in SelectedModels : modelSelected(value)

SpecSwitch == Init /\ [][NextSwitch]_vars

-----------------------------------------------------------------------------
(* Specification of the gateway on its own: a caller makes AIService calls *)
(* with every kind of key and requestUrl settles in every explored way     *)

ApiKeys == {"", Undefined, "key"}

gatewayCall(fn, apiKey) ==
    /\ Len(calls) < MaxCalls
    /\ LET out == AIService(fn, apiKey, "model", "system prompt", <<"user prompt">>)
       IN /\ calls' = Append(calls,
                 CallRecord(0, fn, apiKey, "model", "system prompt", <<"user prompt">>, out))
          /\ posts' = IF out.tag = "await"
                      THEN Append(posts, [call |-> Len(calls) + 1, request |-> out.request])
                      ELSE posts
    /\ UNCHANGED <<persisted, settings, chatHistory, attachments, currentProvider,
                   currentModel, modelOptions, exch, nSends,
                   contextList, vault, noteCalls, tabState>>

gatewaySettled(c, resp) ==
    /\ c \in DOMAIN calls
    /\ calls[c].pc = "awaiting"
    /\ calls[c].exch = 0
    /\ resp \in Responses(calls[c].fn)
    /\ calls' = [calls EXCEPT ![c] = SettledCall(calls[c], resp)]
    /\ UNCHANGED <<persisted, settings, chatHistory, attachments, currentProvider,
                   currentModel, modelOptions, exch, posts, nSends,
                   contextList, vault, noteCalls, tabState>>

NextGateway ==
    \/ \E fn \in AIServiceFns : \E apiKey \in ApiKeys : gatewayCall(fn, apiKey)
    \/ \E c \in 1..MaxCalls : \E fn \in AIServiceFns :
            \E resp \in Responses(fn) : gatewaySettled(c, resp)

SpecGateway == Init /\ [][NextGateway]_vars

-----------------------------------------------------------------------------
(* Properties *)

Range(seq) == {seq[i] : i \in DOMAIN seq}

IsPlaceholder(turn) == turn.role = "system" /\ turn.content = Generating

Outstanding == {c \in DOMAIN calls : calls[c].pc = "awaiting"}

PostsOf(c) == {p \in DOMAIN posts : posts[p].call = c}

CallsOf(id) == {c \in DOMAIN calls : calls[c].exch = id}

\* the exchanges whose provider call has settled, by the way it settled
Settled(id, tag) ==
    /\ exch[id].pc = "done"
    /\ exch[id].call # 0
    /\ calls[exch[id].call].outcome.tag = tag

\* C1: at any time at most one provider call of the session is outstanding:
\* a send made while a call is awaited starts no second call.
C1_OneOutstandingCall == Cardinality(Outstanding) <= 1

\* C2: a finalized turn (any turn but a "Generating..." placeholder) keeps
\* its index, role and content in every later state; only a placeholder is
\* ever removed.
C2_FinalizedTurnsStay ==
    [][\A i \in DOMAIN chatHistory :
          ~IsPlaceholder(chatHistory[i]) =>
              /\ i \in DOMAIN chatHistory'
              /\ chatHistory'[i].role = chatHistory[i].role
              /\ chatHistory'[i].content = chatHistory[i].content]_vars

\* C3: whenever no provider call is outstanding, chatHistory holds no
\* "Generating..." placeholder.
C3_NoPlaceholderWhenIdle ==
    Outstanding = {} => \A i \in DOMAIN chatHistory : ~IsPlaceholder(chatHistory[i])

\* C4: when the provider call of an exchange succeeds, the turn removed is
\* the placeholder pushed for that exchange and an 'ai' turn holding the
\* text the gateway returned takes its place.
C4_SuccessReplacesOwnPlaceholder ==
    [][\A id \in DOMAIN exch :
          (exch[id].pc = "awaiting" /\ Settled(id, "return")') =>
              LET last == Len(chatHistory)
              IN /\ IsPlaceholder(chatHistory[last])
                 /\ chatHistory[last].exch = id
                 /\ Len(chatHistory') = last
                 /\ chatHistory'[last].role = "ai"
                 /\ chatHistory'[last].content = calls'[exch[id].call].outcome.value
                 /\ \A i \in 1..(last - 1) : chatHistory'[i] = chatHistory[i]]_vars

\* C5: after the provider call of an exchange has failed, chatHistory holds
\* the user turn of the exchange immediately followed by one system turn
\* carrying the error message, that is the only error turn of the exchange,
\* and the placeholder of the exchange is gone.
C5_FailureLeavesUserThenError ==
    \A id \in DOMAIN exch :
        Settled(id, "throw") =>
            LET message == calls[exch[id].call].outcome.message
                errors == {i \in DOMAIN chatHistory :
                             /\ chatHistory[i].exch = id
                             /\ chatHistory[i].role = "system"
                             /\ ~IsPlaceholder(chatHistory[i])}
            IN /\ \E u \in DOMAIN chatHistory :
                    /\ chatHistory[u].role = "user"
                    /\ chatHistory[u].exch = id
                    /\ chatHistory[u].content = exch[id].input
                    /\ errors = {u + 1}
                    /\ chatHistory[u + 1].content = <<"Error: ">> \o message
               /\ ~\E i \in DOMAIN chatHistory :
                    IsPlaceholder(chatHistory[i]) /\ chatHistory[i].exch = id

\* the AIService function that serves a provider value, and the key the
\* settings tab stores for that provider
GatewayOf(provider) ==
    CASE provider = "gemini" -> "callGoogle"
      [] provider = "openai" -> "callOpenAI"
      [] provider \in {"claude", "anthropic"} -> "callAnthropic"

ConfiguredKey(provider) ==
    CASE provider = "gemini" -> settings.googleApiKey
      [] provider = "openai" -> settings.openaiApiKey
      [] provider \in {"claude", "anthropic"} -> settings.claudeApiKey

\* C6: every accepted instruction whose placeholder has been pushed has
\* exactly one gateway call, made to the provider selected for the turn (the
\* current provider or the provider of the matched command) with the API key
\* configured for that provider, whatever provider value the settings hold.
C6_OneCallToSelectedProvider ==
    \A id \in DOMAIN exch :
        exch[id].pc \in {"awaiting", "done"} =>
            /\ Cardinality(CallsOf(id)) = 1
            /\ exch[id].call \in CallsOf(id)
            /\ calls[exch[id].call].fn = GatewayOf(exch[id].provider)
            /\ calls[exch[id].call].apiKey = ConfiguredKey(exch[id].provider)

ProviderName(fn) ==
    CASE fn = "callGoogle" -> "Google"
      [] fn = "callOpenAI" -> "OpenAI"
      [] fn = "callAnthropic" -> "Anthropic"

\* C7: a call of any of the three functions with an empty (or missing) key
\* fails with a missing-key error naming the provider, and no POST is issued
\* for it.
C7_MissingKeyFailsBeforeRequest ==
    \A c \in DOMAIN calls :
        Falsy(calls[c].apiKey) =>
            /\ calls[c].pc = "settled"
            /\ calls[c].outcome.tag = "throw"
            /\ calls[c].outcome.message = <<ProviderName(calls[c].fn), " API Key is missing">>
            /\ PostsOf(c) = {}

C7_Witness ==
    /\ Len(calls) = 2
    /\ calls[1].fn # calls[2].fn
    /\ calls[1].apiKey = "" /\ calls[1].outcome.tag = "throw"
    /\ calls[2].apiKey = Undefined /\ calls[2].outcome.tag = "throw"

\* C8: every gateway call made with a non-empty key has issued exactly one
\* POST, while it is awaited and after it has succeeded or failed; an
\* exchange makes one call at most (a failed call is not made again) and a
\* result is returned only from the response to that POST.
C8_OnePostPerCall ==
    /\ \A c \in DOMAIN calls :
          ~Falsy(calls[c].apiKey) =>
              /\ Cardinality(PostsOf(c)) = 1
              /\ calls[c].outcome.tag = "return" => calls[c].resp.kind = "response"
    /\ \A id \in DOMAIN exch : Cardinality(CallsOf(id)) <= 1
    /\ \A p \in DOMAIN posts : posts[p].call \in DOMAIN calls /\ posts[p].request.method = "POST"

C8_Witness ==
    \E a, b \in DOMAIN calls :
        /\ ~Falsy(calls[a].apiKey) /\ calls[a].pc = "settled" /\ calls[a].outcome.tag = "throw"
        /\ ~Falsy(calls[b].apiKey) /\ calls[b].pc = "settled" /\ calls[b].outcome.tag = "return"
        /\ Cardinality(PostsOf(a)) = 1 /\ Cardinality(PostsOf(b)) = 1

\* C9: for each of the three providers, a response with a failure status
\* (400 or more) makes the call fail with an error whose message contains the
\* status code; no text is returned.
C9_FailureStatusInMessage ==
    \A c \in DOMAIN calls :
        (calls[c].pc = "settled" /\ calls[c].resp.kind = "response"
            /\ calls[c].resp.status >= 400) =>
            /\ calls[c].outcome.tag = "throw"
            /\ ToString(calls[c].resp.status) \in Range(calls[c].outcome.message)

C9_Witness ==
    /\ Len(calls) = 2
    /\ calls[1].fn = "callAnthropic" /\ calls[1].resp.kind = "response"
    /\ calls[1].resp.status = 400 /\ calls[1].outcome.tag = "throw"
    /\ calls[2].fn = "callOpenAI" /\ calls[2].resp.kind = "response"
    /\ calls[2].resp.status = 500 /\ calls[2].outcome.tag = "throw"

\* a gemini response without a usable first candidate
NoCandidateContent(resp) ==
    \/ ~Has(resp.json, "candidates")
    \/ resp.json.candidates = <<>>
    \/ ~Has(resp.json.candidates[1], "content")

GeminiResponses == {c \in DOMAIN calls :
    calls[c].fn = "callGoogle" /\ calls[c].pc = "settled" /\ calls[c].resp.kind = "response"}

CarriesStatusAndBody(c) ==
    /\ calls[c].outcome.tag = "throw"
    /\ ToString(calls[c].resp.status) \in Range(calls[c].outcome.message)
    /\ calls[c].resp.text \in Range(calls[c].outcome.message)

\* C10 as stated: a gemini response whose status is not 200, or a 200
\* response with no candidate or with a first candidate lacking content,
\* yields an error carrying the HTTP status and the raw body.
C10_Original ==
    \A c \in GeminiResponses :
        (calls[c].resp.status # 200 \/ NoCandidateContent(calls[c].resp)) =>
            CarriesStatusAndBody(c)

\* C10 amended: a gemini response whose status is not 200 yields an error
\* carrying the HTTP status and the raw body; a 200 response with no
\* candidate or with a first candidate lacking content yields an error too,
\* and no text, but that error carries neither the status nor the body.
C10_GeminiErrors ==
    \A c \in GeminiResponses :
        /\ calls[c].resp.status # 200 => CarriesStatusAndBody(c)
        /\ (calls[c].resp.status = 200 /\ NoCandidateContent(calls[c].resp)) =>
              /\ calls[c].outcome.tag = "throw"
              /\ ToString(calls[c].resp.status) \notin Range(calls[c].outcome.message)
              /\ calls[c].resp.text \notin Range(calls[c].outcome.message)

C10_Witness ==
    /\ Len(calls) = 2
    /\ {1, 2} \subseteq GeminiResponses
    /\ calls[1].resp.status = 204 /\ CarriesStatusAndBody(1)
    /\ calls[2].resp.status = 200 /\ NoCandidateContent(calls[2].resp)
    /\ calls[2].outcome.tag = "throw"

-----------------------------------------------------------------------------
(* Properties of the failure handling, the matching of commands and the   *)
(* attachments                                                             *)

\* the turns of chatHistory pushed by exchange id with the given role
TurnsOf(id, role) ==
    {i \in DOMAIN chatHistory : chatHistory[i].exch = id /\ chatHistory[i].role = role}

\* C11: every failure that arises while a sent instruction is processed
\* (missing credential, provider error, transport error, failure reading an
\* attached document) ends with a system turn carrying the error message
\* after the user turn of the instruction; no failure leaves processCommand
\* uncaught.
C11_FailuresBecomeStatusTurns ==
    \A id \in DOMAIN exch :
        /\ exch[id].pc # "rejected"
        /\ Settled(id, "throw") =>
              \E u \in TurnsOf(id, "user") :
                  /\ u + 1 \in TurnsOf(id, "system")
                  /\ chatHistory[u + 1].content =
                        <<"Error: ">> \o calls[exch[id].call].outcome.message

\* C12: sending an instruction that is empty or whitespace-only after
\* trimming appends no turn to chatHistory and starts no provider call:
\* chatHistory, the attachments, the exchanges, the calls and the POSTs are
\* unchanged.
C12_EmptySendChangesNothing ==
    [][\A value \in AttachInputs :
          (trim(value) = <<>> /\ sendMessage(value)) =>
              UNCHANGED <<chatHistory, attachments, exch, calls, posts>>]_vars

\* an empty send was made in a panel that holds attachments
C12_Witness ==
    /\ nSends = 1
    /\ exch = <<>>
    /\ chatHistory = <<>>
    /\ attachments # <<>>

\* the trigger equals the input, or the input continues the trigger with a
\* space
Qualifies(trigger, input) ==
    \/ input = trigger
    \/ /\ Len(input) > Len(trigger)
       /\ \A k \in 1..Len(trigger) : input[k] = trigger[k]
       /\ input[Len(trigger) + 1] = " "

\* the exchanges that pass findCommandBySlash in the step
Dispatched(id) ==
    /\ id \in DOMAIN exch'
    /\ exch'[id].pc # "reading"
    /\ id \in DOMAIN exch => exch[id].pc = "reading"

\* C13: findCommandBySlash returns the first command, in list order, whose
\* trigger equals the input or is a prefix of the input immediately followed
\* by a space, and no command when none qualifies; a trigger that the input
\* merely starts with ('/gpt' for '/gpt4 x') does not qualify.
C13_FirstQualifyingCommand ==
    [][\A id \in 1..MaxSends :
          Dispatched(id) =>
              LET commands == settings.customCommands
                  input == exch'[id].input
                  c == exch'[id].command
              IN /\ c \in 0..Len(commands)
                 /\ c # 0 => Qualifies(commands[c].command, input)
                 /\ \A j \in DOMAIN commands :
                       (c = 0 \/ j < c) => ~Qualifies(commands[j].command, input)]_vars

\* '/gpt x' was sent while the first and the second command both had the
\* trigger '/gpt', and the first was found
C13_Witness ==
    /\ Len(exch) = 1
    /\ exch[1].input = <<"/", "g", "p", "t", " ", "x">>
    /\ settings.customCommands[1].command = <<"/", "g", "p", "t">>
    /\ settings.customCommands[2].command = <<"/", "g", "p", "t">>
    /\ exch[1].command = 1
    /\ exch[1].provider = "gemini"

\* C14: whenever a custom command matches (its trigger followed by a space
\* and text, or an input identical to the trigger), the request is made to
\* the provider of the command, with its model and its system prompt, and
\* the instruction forwarded is the input with the trigger stripped.
C14_CommandSelectsRequest ==
    \A id \in DOMAIN exch :
        (exch[id].pc \in {"awaiting", "done"} /\ exch[id].command # 0) =>
            LET cmd == settings.customCommands[exch[id].command]
                c == exch[id].call
            IN /\ c \in DOMAIN calls
               /\ calls[c].fn = GatewayOf(cmd.provider)
               /\ calls[c].model = cmd.modelId
               /\ calls[c].systemPrompt = cmd.promptTemplate
               /\ calls[c].userPrompt =
                     <<"Context:\n", exch[id].contextText, "\n\nInstruction:\n",
                       trim(slice(exch[id].input, Len(cmd.command)))>>

\* the exchanges that the step starts or advances
Processed(id) ==
    /\ id \in DOMAIN exch'
    /\ id \in DOMAIN exch => exch'[id] # exch[id]

\* C15: processing an instruction that matches a custom command leaves
\* currentProvider and currentModel unchanged, and an instruction without a
\* slash command is sent with the current provider and the current model,
\* whatever commands were used before it.
C15_CommandLeavesDefaults ==
    [][\A id \in 1..MaxSends :
          /\ (Processed(id) /\ findCommandBySlash(exch'[id].input) # 0) =>
                UNCHANGED <<currentProvider, currentModel>>
          /\ (Dispatched(id) /\ findCommandBySlash(exch'[id].input) = 0) =>
                /\ exch'[id].provider = currentProvider
                /\ exch'[id].modelId = currentModel]_vars

\* '/gpt x' was sent and answered through the command of OpenAI, then 'hi'
\* was sent to the provider and the model the panel started with
C15_Witness ==
    /\ Len(exch) = 2
    /\ exch[1].command = 2 /\ exch[1].provider = "openai" /\ exch[1].pc = "done"
    /\ exch[2].command = 0 /\ exch[2].input = <<"h", "i">>
    /\ exch[2].provider = "gemini" /\ currentProvider = "gemini"
    /\ exch[2].modelId = "gemini-2.0-flash-exp" /\ currentModel = "gemini-2.0-flash-exp"

\* the paths of the documents an attachment list refers to
PathsOf(atts) ==
    UNION {{atts[i].items[k].path : k \in DOMAIN atts[i].items} : i \in DOMAIN atts}

\* the labeled block of the composed prompt for a file
BlockOf(file) ==
    <<"\n=== NOTE: ", file.basename, " ===\n",
      substring(FileContent(file), 0, ContextLimit), "...\n">>

\* the prompt of exchange ex has one block for each file of ex.toRead
OneBlockPerFile(ex) ==
    /\ ex.call \in DOMAIN calls
    /\ LET blocks == calls[ex.call].userPrompt[2]
       IN /\ Len(blocks) = Len(ex.toRead)
          /\ \A i \in DOMAIN blocks : blocks[i] = BlockOf(ex.toRead[i])

\* C16: for any attachment list produced by attach-notes, attach-folder and
\* auto-attach, the prompt composed for an instruction sent with that list
\* contains exactly one labeled block for each distinct document path of the
\* list, also when a document is referred to by an individual attachment
\* and by folder groups.
C16_OneBlockPerPath ==
    [][\A id \in 1..MaxAttachSends :
          /\ (id \in DOMAIN exch' /\ id \notin DOMAIN exch) =>
                LET files == exch'[id].toRead
                IN /\ {files[i].path : i \in DOMAIN files} = PathsOf(attachments)
                   /\ \A i, j \in DOMAIN files : files[i].path = files[j].path => i = j
          /\ (id \in DOMAIN exch' /\ exch'[id].pc \in {"awaiting", "done"}) =>
                OneBlockPerFile(exch[id])']_vars

\* an instruction was sent while F/A.md was attached on its own and through
\* the folder F, and its prompt holds two blocks, for F/A.md and F/S/B.md
C16_Witness ==
    /\ Len(attachments) = 2
    /\ attachments[1].type = "file" /\ attachments[1].path = "F/A.md"
    /\ attachments[2].type = "folder" /\ attachments[2].path = "F"
    /\ Len(exch) = 1
    /\ exch[1].pc = "done"
    /\ Len(exch[1].toRead) = 2
    /\ OneBlockPerFile(exch[1])
    /\ calls[exch[1].call].userPrompt[2][1][2] = "A"
    /\ calls[exch[1].call].userPrompt[2][2][2] = "B"

\* C17: in every reachable state no two entries of the attachment list have
\* the same path, whatever attach-notes, attach-folder, auto-attach and
\* remove operations produced the list.
C17_NoDuplicatePaths ==
    \A i, j \in DOMAIN attachments :
        attachments[i].path = attachments[j].path => i = j

\* C18: attachActiveNote is idempotent: once it has been invoked for the
\* active document, invoking it again for that document leaves the
\* attachment list as it is, and the list never holds two entries of type
\* 'file' for one path.
C18_AttachActiveNoteIdempotent ==
    [][\A activeFile \in VaultFiles \cup {NoFile} :
          attachActiveNote(activeFile) =>
              /\ attachActiveNoteTo(attachments', activeFile) = attachments'
              /\ \A i, j \in DOMAIN attachments' :
                    (/\ attachments'[i].type = "file"
                     /\ attachments'[j].type = "file"
                     /\ attachments'[i].path = attachments'[j].path) => i = j]_vars

\* F/A.md was attached on its own after the folder F that holds it
C18_Witness ==
    /\ Len(attachments) = 2
    /\ attachments[1].type = "folder" /\ attachments[1].path = "F"
    /\ attachments[2] = FileAttachment(File("F/A.md", "A", "md"))
    /\ contextList = refreshContext(attachments)

\* C19: a click on the remove button of a context item removes exactly the
\* attachment that the item displays, leaves the other attachments in their
\* order, and leaves chatHistory, the exchanges and the requests already
\* composed and sent as they are.
C19_RemoveExactlyClicked ==
    [][\A item \in 1..MaxAttach :
          removeAttachment(item) =>
              LET k == contextList[item].index + 1
              IN /\ k \in DOMAIN attachments
                 /\ attachments[k] = contextList[item].att
                 /\ Len(attachments') = Len(attachments) - 1
                 /\ \A i \in DOMAIN attachments' :
                       attachments'[i] = IF i < k THEN attachments[i] ELSE attachments[i + 1]
                 /\ UNCHANGED <<chatHistory, exch, calls, posts>>]_vars

\* an instruction was sent with F/A.md and F/S/B.md attached; while its call
\* is awaited, with both notes in its prompt, the entry of F/A.md was removed
C19_Witness ==
    /\ Len(exch) = 1
    /\ exch[1].pc = "awaiting"
    /\ Len(exch[1].toRead) = 2
    /\ OneBlockPerFile(exch[1])
    /\ attachments = <<FileAttachment(File("F/S/B.md", "B", "md"))>>
    /\ exch[1].toRead[1].path = "F/A.md"

\* the invocations of createNoteFromResponse that the step starts or advances
NoteStep ==
    \E n \in DOMAIN noteCalls' : n \in DOMAIN noteCalls => noteCalls'[n] # noteCalls[n]

\* the creation of the folder or of the document of invocation n fails in
\* the step: the invocation ends where it awaited one of them
NoteRejected(n) ==
    /\ n \in DOMAIN noteCalls
    /\ noteCalls[n].pc \in {"createFolder", "create"}
    /\ noteCalls'[n].pc = "done"

\* C20: createNoteFromResponse never modifies chatHistory or the attachment
\* list, whether the creation succeeds or fails; a failure creating the
\* folder or the document ends the invocation with a notice that reports
\* it, instead of an exception thrown to the caller.
C20_CreateNoteLeavesChat ==
    [][/\ NoteStep => UNCHANGED <<chatHistory, attachments>>
       /\ \A n \in 1..MaxNotes :
             NoteRejected(n) =>
                 /\ vault' = vault
                 /\ Len(noteCalls'[n].notices) = Len(noteCalls[n].notices) + 1
                 /\ startsWith(noteCalls'[n].notices[Len(noteCalls'[n].notices)],
                               <<"Failed to create note: ">>)]_vars

\* with a note attached and an answer in the chat, the creation of the
\* folder failed for one note and the creation of the document for another
C20_Witness ==
    /\ attachments # <<>>
    /\ \E i \in DOMAIN chatHistory : chatHistory[i].role = "ai"
    /\ Len(noteCalls) = 2
    /\ noteCalls[1].pc = "done"
    /\ noteCalls[1].notices = << <<"Failed to create note: ">> \o FolderError >>
    /\ noteCalls[2].pc = "done"
    /\ noteCalls[2].notices = << <<"Failed to create note: ">> \o FileError >>

-----------------------------------------------------------------------------
(* Properties of the notes created from answers *)

\* the date of the title of a note created at now, after a space
DateSuffix(now) == <<" ">> \o now.dateStr

\* the title field of the header block that content starts with, the first
\* heading of content, the first line of content: empty when there is none
HeaderTitle(content) ==
    LET yaml == yamlMatch(content)
    IN IF yaml.matched /\ titleMatch(yaml.group).matched
       THEN trim(titleMatch(yaml.group).group) ELSE <<>>

FirstHeading(content) ==
    IF headingMatch(content).matched THEN trim(headingMatch(content).group) ELSE <<>>

FallbackTitle(now) ==
    <<"A", "I", " ", "R", "e", "s", "p", "o", "n", "s", "e">> \o DateSuffix(now)

\* noteTitle is source, followed by the date when source does not end with one
DerivedFrom(noteTitle, source, now) ==
    noteTitle = IF endsWithDate(source) THEN source ELSE source \o DateSuffix(now)

\* C21: the title of a note is derived from the title field of the header
\* block its text starts with, otherwise from the first heading, otherwise
\* from the first line, and it is 'AI Response <date>' when none of them
\* yields a non-empty title.
C21_TitlePrecedence ==
    \A n \in DOMAIN noteCalls : \E now \in Dates :
        LET content == noteCalls[n].content
            noteTitle == noteCalls[n].noteTitle
        IN IF HeaderTitle(content) # <<>>
           THEN DerivedFrom(noteTitle, HeaderTitle(content), now)
           ELSE IF FirstHeading(content) # <<>>
           THEN DerivedFrom(noteTitle, FirstHeading(content), now)
           ELSE IF firstLineTitle(content) # <<>>
           THEN DerivedFrom(noteTitle, firstLineTitle(content), now)
           ELSE noteTitle = FallbackTitle(now)

Foo == <<"F", "o", "o">>

\* the candidate paths of a note named baseName in folderPath: the name
\* itself for k = 0, the name followed by a space and k otherwise
Candidate(folderPath, baseName, k) ==
    folderPath \o baseName
      \o (IF k = 0 THEN <<>> ELSE <<" ", ToString(k)>>) \o MdExtension

\* invocation n has chosen its path in this step
PathChosen(n) ==
    /\ n \in DOMAIN noteCalls'
    /\ noteCalls'[n].pc = "create"
    /\ n \in DOMAIN noteCalls => noteCalls[n].pc # "create"

\* vault.create of invocation n has resolved in this step
NoteCreated(n) ==
    /\ n \in DOMAIN noteCalls
    /\ noteCalls[n].pc = "create"
    /\ noteCalls'[n].pc = "openFile"

\* the claim as it was stated: for a text whose header block holds the title
\* Foo the candidates are Foo.md, Foo 1.md, Foo 2.md, ... in the default folder
C22_Original ==
    \A n \in DOMAIN noteCalls :
        (HeaderTitle(noteCalls[n].content) = Foo /\ noteCalls[n].finalPath # <<>>) =>
            \E k \in 0..Cardinality(vault) :
                noteCalls[n].finalPath = Candidate(noteCalls[n].folderPath, Foo, k)

\* C22: for a text whose header block holds the title Foo the file name is
\* 'Foo <date>'; the path chosen is the first of <name>.md, <name> 1.md,
\* <name> 2.md, ... in the default folder that does not exist when the search
\* runs, found after at most as many steps as the vault holds paths; a note
\* is created only at a path where nothing exists, and no path of the vault
\* is removed.
C22_FirstFreeCandidate ==
    [][/\ \A n \in DOMAIN noteCalls' : PathChosen(n) =>
             LET call == noteCalls'[n]
             IN /\ HeaderTitle(call.content) = Foo =>
                     \E now \in Dates : call.sanitizedTitle = Foo \o DateSuffix(now)
                /\ \E k \in 0..Cardinality(vault') :
                     /\ call.finalPath = Candidate(call.folderPath, call.sanitizedTitle, k)
                     /\ call.finalPath \notin vault'
                     /\ \A j \in 0..(k - 1) :
                           Candidate(call.folderPath, call.sanitizedTitle, j) \in vault'
       /\ \A n \in DOMAIN noteCalls : NoteCreated(n) =>
             /\ noteCalls[n].finalPath \notin vault
             /\ vault' = vault \cup {noteCalls[n].finalPath}
       /\ vault \subseteq vault']_vars

\* two notes were created in the folder Notes from a text whose header block
\* holds the title Foo: the second one at 'Foo <date> 1.md'
C22_Witness ==
    \E n \in DOMAIN noteCalls : \E now \in Dates :
        /\ HeaderTitle(noteCalls[n].content) = Foo
        /\ noteCalls[n].folderPath = <<"N", "o", "t", "e", "s", "/">>
        /\ noteCalls[n].finalPath =
              Candidate(noteCalls[n].folderPath, Foo \o DateSuffix(now), 1)
        /\ noteCalls[n].pc \in {"openFile", "done"}
        /\ noteCalls[n].notices # <<>>
        /\ Head(noteCalls[n].notices)[1] = "Note created: "
        /\ Candidate(noteCalls[n].folderPath, Foo \o DateSuffix(now), 0) \in vault
        /\ noteCalls[n].finalPath \in vault

\* the text starts with a metadata header block: a line '---', any lines,
\* a line that starts with '---'
StartsWithHeader(content) ==
    /\ startsWith(content, <<"-", "-", "-", "\n">>)
    /\ \E i \in 5..(Len(content) - 3) :
          SubSeq(content, i, i + 3) = <<"\n", "-", "-", "-">>

\* what finalContent holds before the response text
PrefixOf(call) == SubSeq(call.finalContent, 1, Len(call.finalContent) - Len(call.content))

\* vault.create of the invocation has resolved
Written(call) ==
    /\ call.notices # <<>>
    /\ Head(call.notices)[1] = "Note created: "

\* C23: the document handed to vault.create is the response text unchanged
\* when the text starts with a metadata header block, and otherwise a
\* generated header block ('---' to '---' and an empty line) followed by the
\* unchanged response text; the response text is a suffix of it in both
\* cases.
C23_ContentIsSuffix ==
    \A n \in DOMAIN noteCalls :
        LET call == noteCalls[n]
        IN /\ Len(call.finalContent) >= Len(call.content)
           /\ SubSeq(call.finalContent, Len(PrefixOf(call)) + 1, Len(call.finalContent))
                 = call.content
           /\ IF StartsWithHeader(call.content)
              THEN call.finalContent = call.content
              ELSE /\ Len(PrefixOf(call)) >= 2
                   /\ Head(PrefixOf(call)) = "---\ntitle: "
                   /\ PrefixOf(call)[Len(PrefixOf(call))] = "\n---\n\n"

\* a note was written from a text whose header block is not closed: a header
\* block was generated before it
C23_Witness ==
    \E n \in DOMAIN noteCalls :
        /\ noteCalls[n].content = <<"-", "-", "-", "\n", "x">>
        /\ Written(noteCalls[n])
        /\ noteCalls[n].finalPath \in vault
        /\ noteCalls[n].finalContent # noteCalls[n].content
        /\ Head(noteCalls[n].finalContent) = "---\ntitle: "

-----------------------------------------------------------------------------
(* Properties of the settings *)

\* every setting is the persisted value when data.json holds one and the
\* hard-coded default otherwise
MergedOverDefaults ==
    /\ DOMAIN settings = DOMAIN DEFAULT_SETTINGS \cup DOMAIN persisted
    /\ \A key \in DOMAIN settings :
          settings[key] = IF Has(persisted, key) THEN persisted[key]
                          ELSE DEFAULT_SETTINGS[key]

\* the claim as it was stated: whenever the save of an edit settles, the
\* persisted configuration equals the in-memory settings
C24_Original ==
    [][saveSettled => persisted' = settings']_vars

\* C24: after startup every setting absent from the persisted data has its
\* default and every persisted value overrides its default; when no save is
\* pending after an edit, the persisted configuration equals the in-memory
\* settings; while saves are pending, the last of them was handed the
\* in-memory settings.
C24_SavedWhenSettled ==
    IF pendingSaves = <<>>
    THEN /\ MergedOverDefaults
         /\ nEdits > 0 => persisted = settings
    ELSE pendingSaves[Len(pendingSaves)].data = settings

\* a key was typed and a command deleted, and both saves have settled
C24_Witness ==
    /\ nEdits = 2
    /\ pendingSaves = <<>>
    /\ settings.claudeApiKey = NewKey
    /\ Len(settings.customCommands) = Len(DEFAULT_CUSTOM_COMMANDS) - 1
    /\ persisted = settings

\* commands without the one whose id is id
WithoutCommand(commands, id) == SelectSeq(commands, LAMBDA cmd : cmd.id # id)

\* C29: a click on the delete button of a command item removes the command
\* the item was rendered for and no other, also while the save of an
\* earlier delete or edit is pending and the list has not been rendered anew.
C29_DeletesThatCommand ==
    [][\A item \in DOMAIN commandItems :
           deleteCommand(item) =>
               settings'.customCommands =
                   WithoutCommand(settings.customCommands, commandItems[item].id)]_vars

-----------------------------------------------------------------------------
(* Properties of the skills *)

\* the system prompts that hold no instructions of a skill: the default one
\* and the templates of the custom commands
BarePrompts ==
    {DefaultSystemPrompt}
        \cup {settings.customCommands[i].promptTemplate : i \in DOMAIN settings.customCommands}

EnabledSkills == {i \in DOMAIN settings.skills : settings.skills[i].enabled}

\* C25: the system prompt of every request sent to a provider includes the
\* instructions of every skill that is enabled when the instruction is
\* sent: with a skill enabled, it is not the bare prompt of the panel or of
\* the command.
C25_SkillsInSystemPrompt ==
    [][Len(posts') > Len(posts) =>
          LET call == calls'[posts'[Len(posts')].call]
          IN EnabledSkills # {} => call.systemPrompt \notin BarePrompts]_vars

\* the directories directly under .obsidian/skills
SkillDirs ==
    {path \in vault : /\ startsWith(path, skillsDir \o <<"/">>)
                      /\ Len(path) > 2
                      /\ \A i \in 3..Len(path) : path[i] # "/"}

\* C28: every directory under .obsidian/skills belongs to a skill present
\* in settings, and a step that deletes a skill leaves in place the
\* SKILL.md of every skill that remains.
C28_SkillDirsBelong ==
    /\ [](\A dir \in SkillDirs :
             \E i \in DOMAIN settings.skills : skillSubDir(settings.skills[i]) = dir)
    /\ [][Len(settings'.skills) < Len(settings.skills) =>
              \A i \in DOMAIN settings'.skills :
                  skillFilePath(settings'.skills[i]) \in vault =>
                      skillFilePath(settings'.skills[i]) \in vault']_vars

-----------------------------------------------------------------------------
(* Properties of the provider tabs and the model selector *)

\* C26: the provider, the model and the key used for an exchange are those
\* in effect when its instruction was sent, whatever tab is clicked or model
\* selected while its documents are read or its call is outstanding.
C26_SentWhereChosen ==
    \A id \in DOMAIN exch :
        LET ex == exch[id]
        IN ex.call # 0 =>
              /\ ex.provider = ex.atSend.provider
              /\ calls[ex.call].fn = ProviderCall(ex.atSend.provider)
              /\ calls[ex.call].model = ex.atSend.modelId
              /\ calls[ex.call].apiKey = ex.atSend.apiKey

\* the catalog the panel shows for a provider tab: the Claude tab is named
\* 'anthropic' in the panel and 'claude' in PROVIDER_MODELS
CatalogOf(p) == PROVIDER_MODELS[IF p = "anthropic" THEN "claude" ELSE p]

ModelInCatalog ==
    \E i \in DOMAIN CatalogOf(currentProvider) : CatalogOf(currentProvider)[i] = currentModel

\* C27: in every reachable state the current model belongs to the catalog
\* of the current provider, and a step that switches the provider tab sets
\* the model to the first entry of the catalog of the new provider.
C27_ModelInCatalog ==
    /\ []ModelInCatalog
    /\ [][currentProvider' # currentProvider =>
              currentModel' = CatalogOf(currentProvider')[1]]_vars

-----------------------------------------------------------------------------
(* Properties of the attachment entries *)

WellFormedAttachment(att) ==
    /\ att.count = Len(att.items)
    /\ att.count >= 1
    /\ att.type = "file" => Len(att.items) = 1 /\ att.items[1].path = att.path

\* C30: every attachment entry is well formed (its count is the number of
\* its items and at least 1, a file entry holds the one item of its path),
\* and attaching a folder without markdown documents adds no entry.
C30_AttachmentsWellFormed ==
    /\ [](\A i \in DOMAIN attachments : WellFormedAttachment(attachments[i]))
    /\ [][\A folder \in VaultFolders :
              attachFolder(folder) /\ collectFiles(folder) = <<>> =>
                  attachments' = attachments]_vars

\* a document and a folder of two documents are attached
C30_Witness ==
    /\ Len(attachments) = 2
    /\ \E i \in DOMAIN attachments : attachments[i].type = "file"
    /\ \E i \in DOMAIN attachments :
          attachments[i].type = "folder" /\ attachments[i].count = 2

====
